---- MODULE Spec2Model ----
(***************************************************************************)
(* Model of the algorithm visualizer's animation engine and run pipeline   *)
(* (src/editor-script.js).                                                  *)
(*                                                                         *)
(* The browser is single threaded: every handler and every timer callback  *)
(* runs to completion, so each is one action.  Two kinds of callbacks are  *)
(* scheduled by AnimationEngine.animate: a setTimeout whose handle is      *)
(* thrown away (nothing can cancel it) and a requestAnimationFrame whose   *)
(* handle is kept in animationId (only the most recent one can be          *)
(* cancelled).                                                             *)
(***************************************************************************)
EXTENDS Naturals, Integers, Sequences, FiniteSets, Bags, TLC

(***************************************************************************)
(* Bounds of the model.                                                    *)
(***************************************************************************)
\* longest frame sequence a producer returns in the engine model
MaxFrames == 3
\* most advancement callbacks (timeouts + animation-frame requests) outstanding
MaxTimers == 2
\* most run pipelines in flight at once
MaxPipelines == 2
\* longest input array handed to a producer
MaxLen == 3
\* largest number in an input array (the numbers are 1..MaxVal)
MaxVal == 3
\* number of vertices of an input graph
MaxVertices == 3
\* most calls of a producer on one input
MaxCalls == 2
\* most words of a source text
MaxWords == 4
\* most brace groups of a source text
MaxGroups == 1
\* most comma-separated items of a brace group or of the array field
MaxItems == 2
\* runs of script.js started by clicks
MaxRuns == 2
\* clicks on the step button of script.js
MaxSteps == 1

(***************************************************************************)
(* Program constants.                                                      *)
(***************************************************************************)
\* AnimationEngine constructor: this.animationSpeed = 5
DefaultSpeed == 5

\* let customArray = [64, 34, 25, 12, 22, 11, 90]
DefaultArray == <<64, 34, 25, 12, 22, 11, 90>>

\* A source text, as far as the analyzer looks at it: its words, in order on
\* one line, and its brace groups `{...}`, in order.  The empty text:
NoCode == [words |-> <<>>, groups |-> <<>>]

\* One piece of a comma-separated text: a leading blank or not, a leading
\* number (<<n>>) or none (<<>>), and the characters after it.  NoItem is "".
Item(blank, number, rest) == [blank |-> blank, number |-> number, rest |-> rest]
NoItem == Item(FALSE, <<>>, "")

\* extractArrayData's null, and an array it returns
NullArray == [null |-> TRUE, values |-> <<>>]
SomeArray(values) == [null |-> FALSE, values |-> values]

\* before the first parseCode
NoAnalysis ==
    [algorithm |-> "none", arrayData |-> NullArray, hasLoops |-> FALSE,
     complexity |-> "none", errors |-> <<>>]

\* the speedSlider positions explored: the slowest and the default
Speeds == {1, DefaultSpeed}

\* the rule names of CodeAnalyzer.detectAlgorithm, plus its fallback
AlgorithmIds ==
    {"bubble", "selection", "insertion", "merge", "quick", "heap",
     "linear_search", "binary_search", "bfs", "dfs", "fibonacci", "unknown"}

\* the cases of the switch in simulateExecution that call a frame producer
ProducerIds ==
    {"bubble", "selection", "insertion", "merge", "quick",
     "linear_search", "binary_search", "bfs", "dfs"}

VARIABLES
    \* ---- AnimationEngine fields ----
    isPlaying,      \* this.isPlaying
    isPaused,       \* this.isPaused
    currentFrame,   \* this.currentFrame (0-based)
    totalFrames,    \* this.totalFrames
    animationSpeed, \* this.animationSpeed
    animationId,    \* this.animationId: 0 = null, 1 = handle of the most recent request
    frames,         \* this.frames
    canvas,         \* what the canvas shows: Blank or the frame last rendered
    timelineValue,  \* timelineSlider.value: the position last shown on the timeline
    \* ---- callbacks in flight ----
    timeouts,       \* bag of delays of the pending setTimeout callbacks of animate
    rafLatest,      \* the animation-frame request whose handle is animationId is pending
    rafOrphans,     \* pending animation-frame requests whose handle was overwritten
    \* ---- page-level state of the run pipeline ----
    isRunning,      \* let isRunning (of editor-script.js, and of script.js in
                    \* ScriptSpec)
    pipeline,       \* stages of the runs in flight, oldest first
    \* ---- history variables ----
    lastExec,       \* what the latest execution phase did: "none" yet, a producer
                    \* case "produced" frames, or the default case ran ("fallback")
    op,             \* the last engine method, other than setSpeed, a handler called
    expiries,       \* while op = "playFromStart": setTimeout callbacks of animate
                    \* fired since that call; 0 otherwise
    \* ---- a frame producer and its caller ----
    array,          \* the caller's array (testArray), handed to the producer
    target,         \* the caller's search target
    graph,          \* the caller's adjacency list
    start,          \* the start vertex
    codeLines,      \* the annotations object of extractCodeLines
    producer,       \* the producer called last, "none" before the first call
    result,         \* the frames the last call returned
    evaluated,      \* element comparisons the last call evaluated
    calls,          \* consecutive calls of `producer` made so far
    traversalOutput, \* the order the latest "Traversal order:" line of the
                    \* output area lists, <<>> before the first
    \* ---- the editor text, its analysis and the customize dialog ----
    code,           \* editor.getValue(): the source text
    analysis,       \* what codeAnalyzer.parseCode(code) returned last
    arrayValues,    \* arrayValues.value: the text of the dialog's array field
    customArray,    \* let customArray
    \* ---- the page of script.js ----
    runBtnText,     \* runBtn.textContent
    outputArea,     \* the lines of outputArea, oldest first
    currentStep,    \* let currentStep
    timers,         \* the pending timers of the runs, in order of creation
    started,        \* runs started so far; the latest has this number
    stoppedRuns     \* the runs the user stopped with the run button

vars == <<isPlaying, isPaused, currentFrame, totalFrames, animationSpeed,
          animationId, frames, canvas, timelineValue, timeouts, rafLatest,
          rafOrphans,
          isRunning, pipeline, lastExec, op, expiries,
          array, target, graph, start, codeLines, producer, result, evaluated,
          calls, traversalOutput, code, analysis, arrayValues, customArray,
          runBtnText, outputArea, currentStep, timers, started, stoppedRuns>>

engineVars == <<isPlaying, isPaused, currentFrame, totalFrames, animationSpeed,
                animationId, frames, canvas, timelineValue>>
timerVars == <<timeouts, rafLatest, rafOrphans>>
runVars == <<isRunning, pipeline, lastExec>>
histVars == <<op, expiries>>
inputVars == <<array, target, graph, start, codeLines>>
callVars == <<producer, result, evaluated, calls, traversalOutput>>
pageVars == <<code, analysis, arrayValues, customArray>>
scriptVars == <<runBtnText, outputArea, currentStep, timers, started,
                stoppedRuns>>

\* the cleared canvas (AnimationEngine.clear)
Blank == [step |-> -1]

\* number of advancement callbacks outstanding
Pending == BagCardinality(timeouts) + (IF rafLatest THEN 1 ELSE 0) + rafOrphans

\* the frame at JavaScript index i of the loaded sequence
FrameAt(i) == frames[i + 1]

----------------------------------------------------------------------------
(***************************************************************************)
(* History bookkeeping: a handler has called the engine method `name`.     *)
(* op tells apart stop() and pause() called while playing, play() called   *)
(* on a loaded sequence (at position 0 with no advancement callback        *)
(* outstanding: "playFromStart"), and setFrames(); every other call, and   *)
(* the state after construction, is "other".                               *)
(***************************************************************************)
OpName(name) ==
    CASE name = "stop" /\ isPlaying -> "stopPlaying"
      [] name = "pause" /\ isPlaying -> "pausePlaying"
      [] name = "play" /\ Len(frames) > 0 /\ currentFrame = 0 /\ Pending = 0
            -> "playFromStart"
      [] name = "play" /\ Len(frames) > 0 -> "play"
      [] name = "setFrames" -> "setFrames"
      [] name = "stepForward" -> "stepForward"
      [] name = "stepBackward" -> "stepBackward"
      [] OTHER -> "other"

Touch(name) ==
    /\ op' = OpName(name)
    /\ expiries' = 0

----------------------------------------------------------------------------
(***************************************************************************)
(* AnimationEngine methods.  Each is the effect on the engine fields and   *)
(* on the callbacks in flight.                                             *)
(***************************************************************************)

\* animate() that never schedules an advancement
animateNever(playing, paused) ==
    timeouts' = timeouts

\* animate(): schedules one setTimeout of 1000 / animationSpeed ms unless
\* the engine is not playing.  playing, paused: the flags when it is called.
animate(playing, paused) ==
    IF ~playing \/ paused
    THEN timeouts' = timeouts
    ELSE timeouts' = timeouts (+) SetToBag({1000 \div animationSpeed})

\* setFrames that forgets `this.currentFrame = 0`
setFramesKeepsPosition(newFrames) ==
    /\ frames' = newFrames
    /\ totalFrames' = Len(newFrames)
    /\ timelineValue' = IF Len(newFrames) > 0 THEN currentFrame ELSE timelineValue
    /\ UNCHANGED <<currentFrame, isPlaying, isPaused, animationSpeed, animationId,
                   canvas>>
    /\ UNCHANGED timerVars

\* setFrames(frames)
setFrames(newFrames) ==
    /\ frames' = newFrames
    /\ totalFrames' = Len(newFrames)
    /\ currentFrame' = 0
    \* updateTimelineSlider(): only when totalFrames > 0
    /\ timelineValue' = IF Len(newFrames) > 0 THEN 0 ELSE timelineValue
    /\ UNCHANGED <<isPlaying, isPaused, animationSpeed, animationId, canvas>>
    /\ UNCHANGED timerVars

\* play() without its `if (this.frames.length === 0) return`
playUnguarded ==
    /\ isPlaying' = TRUE
    /\ isPaused' = FALSE
    /\ animate(TRUE, FALSE)
    /\ UNCHANGED <<currentFrame, totalFrames, animationSpeed, animationId,
                   frames, canvas, timelineValue, rafLatest, rafOrphans>>

\* play()
play ==
    IF Len(frames) = 0
    THEN UNCHANGED engineVars /\ UNCHANGED timerVars
    ELSE /\ isPlaying' = TRUE
         /\ isPaused' = FALSE
         /\ animate(TRUE, FALSE)
         /\ UNCHANGED <<currentFrame, totalFrames, animationSpeed, animationId,
                        frames, canvas, timelineValue, rafLatest, rafOrphans>>

\* pause() that forgets `this.isPlaying = false`
pauseKeepsPlaying ==
    /\ isPaused' = TRUE
    /\ rafLatest' = IF animationId # 0 THEN FALSE ELSE rafLatest
    /\ UNCHANGED <<isPlaying, currentFrame, totalFrames, animationSpeed,
                   animationId, frames, canvas, timelineValue, timeouts,
                   rafOrphans>>

\* pause()
pause ==
    /\ isPaused' = TRUE
    /\ isPlaying' = FALSE
    /\ rafLatest' = IF animationId # 0 THEN FALSE ELSE rafLatest
    /\ UNCHANGED <<currentFrame, totalFrames, animationSpeed, animationId,
                   frames, canvas, timelineValue, timeouts, rafOrphans>>

\* stop() that forgets `this.currentFrame = 0`
stopKeepsPosition ==
    /\ isPlaying' = FALSE
    /\ isPaused' = FALSE
    /\ rafLatest' = IF animationId # 0 THEN FALSE ELSE rafLatest
    /\ canvas' = Blank
    /\ UNCHANGED <<currentFrame, totalFrames, animationSpeed, animationId, frames,
                   timelineValue, timeouts, rafOrphans>>

\* stop()
stop ==
    /\ isPlaying' = FALSE
    /\ isPaused' = FALSE
    /\ currentFrame' = 0
    /\ rafLatest' = IF animationId # 0 THEN FALSE ELSE rafLatest
    /\ canvas' = Blank
    /\ UNCHANGED <<totalFrames, animationSpeed, animationId, frames,
                   timelineValue, timeouts, rafOrphans>>

\* stepForward() that wraps around to index 0 at the last index
stepForwardWraps ==
    /\ IF currentFrame < totalFrames - 1
       THEN /\ currentFrame' = currentFrame + 1
            /\ canvas' = FrameAt(currentFrame + 1)
            /\ timelineValue' = currentFrame + 1
       ELSE IF totalFrames > 1
            THEN /\ currentFrame' = 0
                 /\ canvas' = FrameAt(0)
                 /\ timelineValue' = 0
            ELSE UNCHANGED <<currentFrame, canvas, timelineValue>>
    /\ UNCHANGED <<isPlaying, isPaused, totalFrames, animationSpeed,
                   animationId, frames>>
    /\ UNCHANGED timerVars

\* stepForward()
stepForward ==
    /\ IF currentFrame < totalFrames - 1
       THEN /\ currentFrame' = currentFrame + 1
            /\ canvas' = FrameAt(currentFrame + 1)
            /\ timelineValue' = currentFrame + 1
       ELSE UNCHANGED <<currentFrame, canvas, timelineValue>>
    /\ UNCHANGED <<isPlaying, isPaused, totalFrames, animationSpeed,
                   animationId, frames>>
    /\ UNCHANGED timerVars

\* stepBackward()
stepBackward ==
    /\ IF currentFrame > 0
       THEN /\ currentFrame' = currentFrame - 1
            /\ canvas' = FrameAt(currentFrame - 1)
            /\ timelineValue' = currentFrame - 1
       ELSE UNCHANGED <<currentFrame, canvas, timelineValue>>
    /\ UNCHANGED <<isPlaying, isPaused, totalFrames, animationSpeed,
                   animationId, frames>>
    /\ UNCHANGED timerVars

\* goToFrame(frameIndex)
goToFrame(frameIndex) ==
    /\ IF frameIndex >= 0 /\ frameIndex < totalFrames
       THEN /\ currentFrame' = frameIndex
            /\ canvas' = FrameAt(frameIndex)
            /\ timelineValue' = frameIndex
       ELSE UNCHANGED <<currentFrame, canvas, timelineValue>>
    /\ UNCHANGED <<isPlaying, isPaused, totalFrames, animationSpeed,
                   animationId, frames>>
    /\ UNCHANGED timerVars

\* setSpeed(speed) that also re-times the delays already scheduled
setSpeedReschedules(speed) ==
    /\ animationSpeed' = speed
    /\ timeouts' = IF BagCardinality(timeouts) = 0
                   THEN EmptyBag
                   ELSE (1000 \div speed) :> BagCardinality(timeouts)
    /\ UNCHANGED <<isPlaying, isPaused, currentFrame, totalFrames,
                   animationId, frames, canvas, timelineValue>>
    /\ UNCHANGED <<rafLatest, rafOrphans>>

\* setSpeed(speed)
setSpeed(speed) ==
    /\ animationSpeed' = speed
    /\ UNCHANGED <<isPlaying, isPaused, currentFrame, totalFrames,
                   animationId, frames, canvas, timelineValue>>
    /\ UNCHANGED timerVars

----------------------------------------------------------------------------
EngineInit ==
    /\ isPlaying = FALSE
    /\ isPaused = FALSE
    /\ currentFrame = 0
    /\ totalFrames = 0
    /\ animationSpeed = DefaultSpeed
    /\ animationId = 0
    /\ frames = <<>>
    /\ canvas = Blank
    /\ timelineValue = 0
    /\ timeouts = EmptyBag
    /\ rafLatest = FALSE
    /\ rafOrphans = 0
    /\ isRunning = FALSE
    /\ pipeline = <<>>
    /\ lastExec = "none"
    /\ op = "other"
    /\ expiries = 0

\* the run button's two captions
RunCaption == "Run Code"
StopCaption == "Stop"

\* script.js as loaded
ScriptPageInit ==
    /\ runBtnText = RunCaption
    /\ outputArea = <<>>
    /\ currentStep = 0
    /\ timers = <<>>
    /\ started = 0
    /\ stoppedRuns = {}

\* no producer has been called and no input is at hand
NoProducerCall ==
    /\ producer = "none"
    /\ result = <<>>
    /\ evaluated = 0
    /\ calls = 0
    /\ traversalOutput = <<>>

\* the page after loading, the editor and the array field empty
PageInit ==
    /\ code = NoCode
    /\ analysis = NoAnalysis
    /\ arrayValues = <<NoItem>>
    /\ customArray = DefaultArray

\* the page after loading: the engine as constructed, no run started
Init ==
    /\ EngineInit
    /\ PageInit
    /\ array = <<>>
    /\ target = 0
    /\ graph = <<>>
    /\ start = 0
    /\ codeLines = <<>>
    /\ NoProducerCall
    /\ ScriptPageInit

----------------------------------------------------------------------------
(***************************************************************************)
(* Advancement callbacks.                                                  *)
(***************************************************************************)

\* The timeout callback, were it to leave `playing` as soon as it has rendered
\* the last frame instead of one delay later.
TimeoutFiresIdleAtLast(d) ==
    /\ BagIn(d, timeouts)
    /\ expiries' = IF op = "playFromStart" THEN expiries + 1 ELSE expiries
    /\ IF currentFrame < totalFrames - 1
       THEN /\ currentFrame' = currentFrame + 1
            /\ canvas' = FrameAt(currentFrame + 1)
            /\ timelineValue' = currentFrame + 1
            /\ animationId' = 1
            /\ rafOrphans' = rafOrphans + (IF rafLatest THEN 1 ELSE 0)
            /\ rafLatest' = TRUE
            /\ isPlaying' = (isPlaying /\ currentFrame + 1 < totalFrames - 1)
       ELSE /\ isPlaying' = FALSE
            /\ UNCHANGED <<currentFrame, canvas, timelineValue, animationId,
                           rafOrphans, rafLatest>>
    /\ timeouts' = timeouts (-) SetToBag({d})
    /\ UNCHANGED <<isPaused, totalFrames, animationSpeed, frames, op>>
    /\ UNCHANGED runVars
    /\ UNCHANGED <<inputVars, callVars, pageVars, scriptVars>>

\* The arrow function handed to setTimeout in animate(), firing after delay d.
TimeoutFires(d) ==
    /\ BagIn(d, timeouts)
    /\ expiries' = IF op = "playFromStart" THEN expiries + 1 ELSE expiries
    /\ IF currentFrame < totalFrames - 1
       THEN /\ currentFrame' = currentFrame + 1
            /\ canvas' = FrameAt(currentFrame + 1)
            /\ timelineValue' = currentFrame + 1
            \* this.animationId = requestAnimationFrame(() => this.animate())
            /\ animationId' = 1
            /\ rafOrphans' = rafOrphans + (IF rafLatest THEN 1 ELSE 0)
            /\ rafLatest' = TRUE
            /\ UNCHANGED isPlaying
       ELSE /\ isPlaying' = FALSE
            /\ UNCHANGED <<currentFrame, canvas, timelineValue, animationId,
                           rafOrphans, rafLatest>>
    /\ timeouts' = timeouts (-) SetToBag({d})
    /\ UNCHANGED <<isPaused, totalFrames, animationSpeed, frames, op>>
    /\ UNCHANGED runVars
    /\ UNCHANGED <<inputVars, callVars, pageVars, scriptVars>>

\* The animation-frame request whose handle is in animationId fires: animate().
RafFires ==
    /\ rafLatest
    /\ rafLatest' = FALSE
    /\ animate(isPlaying, isPaused)
    /\ UNCHANGED rafOrphans
    /\ UNCHANGED engineVars
    /\ UNCHANGED runVars
    /\ UNCHANGED histVars
    /\ UNCHANGED <<inputVars, callVars, pageVars, scriptVars>>

\* An animation-frame request whose handle was overwritten fires: animate().
OrphanRafFires ==
    /\ rafOrphans > 0
    /\ rafOrphans' = rafOrphans - 1
    /\ animate(isPlaying, isPaused)
    /\ UNCHANGED rafLatest
    /\ UNCHANGED engineVars
    /\ UNCHANGED runVars
    /\ UNCHANGED histVars
    /\ UNCHANGED <<inputVars, callVars, pageVars, scriptVars>>

----------------------------------------------------------------------------
(***************************************************************************)
(* Handlers of the playback controls.                                      *)
(***************************************************************************)

\* playBtn click
PlayBtn ==
    /\ Pending < MaxTimers
    /\ play
    /\ Touch("play")
    /\ UNCHANGED runVars
    /\ UNCHANGED <<inputVars, callVars, pageVars, scriptVars>>

\* pauseBtn click
PauseBtn ==
    /\ pause
    /\ Touch("pause")
    /\ UNCHANGED runVars
    /\ UNCHANGED <<inputVars, callVars, pageVars, scriptVars>>

\* keydown " ": pause when playing, play otherwise
KeySpace ==
    /\ IF isPlaying
       THEN pause /\ Touch("pause")
       ELSE Pending < MaxTimers /\ play /\ Touch("play")
    /\ UNCHANGED runVars
    /\ UNCHANGED <<inputVars, callVars, pageVars, scriptVars>>

\* stepForwardBtn click, keydown ArrowRight
StepForwardBtn ==
    /\ stepForward
    /\ Touch("stepForward")
    /\ UNCHANGED runVars
    /\ UNCHANGED <<inputVars, callVars, pageVars, scriptVars>>

\* stepBackBtn click, keydown ArrowLeft
StepBackBtn ==
    /\ stepBackward
    /\ Touch("stepBackward")
    /\ UNCHANGED runVars
    /\ UNCHANGED <<inputVars, callVars, pageVars, scriptVars>>

\* stepBtn click: steps only while a run is in progress
StepBtn ==
    /\ isRunning
    /\ stepForward
    /\ Touch("stepForward")
    /\ UNCHANGED runVars
    /\ UNCHANGED <<inputVars, callVars, pageVars, scriptVars>>

\* resetVisualizationBtn click, keydown r/R, clearBtn click, resetBtn click
ResetVisualizationBtn ==
    /\ stop
    /\ Touch("stop")
    /\ UNCHANGED runVars
    /\ UNCHANGED <<inputVars, callVars, pageVars, scriptVars>>

\* speedSlider input
SpeedSlider(speed) ==
    /\ setSpeed(speed)
    /\ UNCHANGED histVars
    /\ UNCHANGED runVars
    /\ UNCHANGED <<inputVars, callVars, pageVars, scriptVars>>

\* timelineSlider input
TimelineSlider(frameIndex) ==
    /\ goToFrame(frameIndex)
    /\ Touch("goToFrame")
    /\ UNCHANGED runVars
    /\ UNCHANGED <<inputVars, callVars, pageVars, scriptVars>>

----------------------------------------------------------------------------
(***************************************************************************)
(* The run pipeline: runCode -1000ms-> simulateExecution -1500ms->          *)
(* "Compilation successful" -500ms-> execution phase -1000ms-> completion.  *)
(* runCode has no isRunning guard, so several pipelines can be in flight;   *)
(* their delays are equal stage by stage, so a later run never overtakes    *)
(* an earlier one.                                                          *)
(***************************************************************************)
Rank(stage) ==
    CASE stage = "queued" -> 1
      [] stage = "compiling" -> 2
      [] stage = "starting" -> 3
      [] stage = "executed" -> 4

\* pipeline i's timer may fire: the run before it is already further on
MayAdvance(i) ==
    /\ i \in 1..Len(pipeline)
    /\ i > 1 => Rank(pipeline[i - 1]) > Rank(pipeline[i])

\* What a frame producer returns: a fresh array of len frames, one per step.
GenerateFrames(len) ==
    [i \in 1..len |-> [step |-> i - 1]]

\* runBtn click: runCode().  blank: the editor holds only white space.
RunBtn(blank) ==
    /\ Len(pipeline) < MaxPipelines
    /\ IF blank
       THEN UNCHANGED runVars
       ELSE /\ isRunning' = TRUE
            /\ pipeline' = Append(pipeline, "queued")
            /\ UNCHANGED lastExec
    /\ UNCHANGED engineVars
    /\ UNCHANGED timerVars
    /\ UNCHANGED histVars
    /\ UNCHANGED <<inputVars, callVars, pageVars, scriptVars>>

\* the 1000 ms timer of runCode: simulateExecution(code) up to its first setTimeout
SimulateExecution(i) ==
    /\ MayAdvance(i)
    /\ pipeline[i] = "queued"
    /\ pipeline' = [pipeline EXCEPT ![i] = "compiling"]
    /\ UNCHANGED <<isRunning, lastExec>>
    /\ UNCHANGED engineVars
    /\ UNCHANGED timerVars
    /\ UNCHANGED histVars
    /\ UNCHANGED <<inputVars, callVars, pageVars, scriptVars>>

\* the 1500 ms timer of simulateExecution
CompilationDone(i) ==
    /\ MayAdvance(i)
    /\ pipeline[i] = "compiling"
    /\ pipeline' = [pipeline EXCEPT ![i] = "starting"]
    /\ UNCHANGED <<isRunning, lastExec>>
    /\ UNCHANGED engineVars
    /\ UNCHANGED timerVars
    /\ UNCHANGED histVars
    /\ UNCHANGED <<inputVars, callVars, pageVars, scriptVars>>

\* the frames the switch of the execution phase leaves in `frames`
ProducedFrames(detectedAlgorithm, len) ==
    IF detectedAlgorithm \in ProducerIds
    THEN GenerateFrames(len)
    ELSE <<>>

\* The 500 ms timer: the execution phase.  detectedAlgorithm is the selector's
\* value or, on "auto", the classifier's result for the text of this run; len
\* is the length of the sequence the producer builds from the run's input.
ExecutionPhase(i, detectedAlgorithm, len) ==
    /\ MayAdvance(i)
    /\ pipeline[i] = "starting"
    /\ pipeline' = [pipeline EXCEPT ![i] = "executed"]
    /\ LET produced == ProducedFrames(detectedAlgorithm, len)
       IN  /\ lastExec' = IF detectedAlgorithm \in ProducerIds
                          THEN "produced" ELSE "fallback"
           /\ IF Len(produced) > 0
              THEN setFrames(produced) /\ Touch("setFrames")
              ELSE UNCHANGED engineVars /\ UNCHANGED timerVars
                   /\ UNCHANGED histVars
    /\ UNCHANGED isRunning
    /\ UNCHANGED <<inputVars, callVars, pageVars, scriptVars>>

\* stopExecution()
stopExecution ==
    /\ isRunning' = FALSE
    /\ stop

\* the 1000 ms timer of the execution phase: completion
ExecutionCompleted ==
    /\ Len(pipeline) > 0
    /\ pipeline[1] = "executed"
    /\ pipeline' = Tail(pipeline)
    /\ stopExecution
    /\ Touch("stop")
    /\ UNCHANGED lastExec
    /\ UNCHANGED <<inputVars, callVars, pageVars, scriptVars>>

----------------------------------------------------------------------------
Next ==
    \/ PlayBtn
    \/ PauseBtn
    \/ KeySpace
    \/ StepForwardBtn
    \/ StepBackBtn
    \/ StepBtn
    \/ ResetVisualizationBtn
    \/ \E speed \in Speeds : SpeedSlider(speed)
    \/ \E frameIndex \in -1..MaxFrames : TimelineSlider(frameIndex)
    \/ \E blank \in BOOLEAN : RunBtn(blank)
    \/ \E i \in 1..MaxPipelines : SimulateExecution(i)
    \/ \E i \in 1..MaxPipelines : CompilationDone(i)
    \/ \E i \in 1..MaxPipelines, alg \in AlgorithmIds :
          \E len \in (IF alg \in ProducerIds THEN 1..MaxFrames ELSE {0}) :
             ExecutionPhase(i, alg, len)
    \/ ExecutionCompleted
    \/ \E d \in {1000 \div s : s \in Speeds} : TimeoutFires(d)
    \/ RafFires
    \/ OrphanRafFires

Spec == Init /\ [][Next]_vars

(***************************************************************************)
(* Fair firing of the scheduled callbacks: a pending timeout or animation   *)
(* frame request is eventually run by the browser's event loop.             *)
(***************************************************************************)
LiveSpec ==
    /\ Spec
    /\ WF_vars(\E d \in {1000 \div s : s \in Speeds} : TimeoutFires(d))
    /\ WF_vars(RafFires)
    /\ WF_vars(OrphanRafFires)

----------------------------------------------------------------------------
(***************************************************************************)
(* The frame producers of SortingVisualizer.  JavaScript arrays are        *)
(* sequences; the indices kept in frames are the 0-based JavaScript ones.  *)
(* A template string is kept as its text with a % for every interpolation  *)
(* and the interpolated values in order.                                   *)
(*                                                                         *)
(* A producer is modelled by its run: the local copy `arr` as the          *)
(* statements leave it, the frames pushed so far, the number of            *)
(* element-to-element comparisons evaluated so far, and `ret`, the value a *)
(* loop or helper hands back to its caller.                                *)
(***************************************************************************)

\* null
Null == -1

\* arr[i]
At(arr, i) == arr[i + 1]

\* arr[i] = v
Put(arr, i, v) == [arr EXCEPT ![i + 1] = v]

\* an exchange that loses arr[i]: only `arr[i] = arr[j]`
SwapOverwrites(arr, i, j) == [arr EXCEPT ![i + 1] = arr[j + 1]]

\* [arr[i], arr[j]] = [arr[j], arr[i]]
Swap(arr, i, j) == [arr EXCEPT ![i + 1] = arr[j + 1], ![j + 1] = arr[i + 1]]

\* arr.slice(from, to)
Slice(arr, from, to) == [k \in 1..(to - from) |-> arr[from + k]]

\* Array.from({ length: count }, (_, i) => from + i)
Indices(from, count) == [k \in 1..count |-> from + k - 1]

\* Math.floor((a + b) / 2) for a + b >= 0
Mid(a, b) == (a + b) \div 2

\* codeLines.key || null: a missing key and line 0 both give null
CodeLine(lines, key) ==
    IF key \in DOMAIN lines /\ lines[key] # 0 THEN lines[key] ELSE Null

\* A frame of type "array".  A frame built without a `sorted` field has
\* sorted = <<>> here: renderArray draws both alike (`sorted && ...`).
ArrayFrame(algorithm, arr, highlights, comparisons, sorted, text, args, codeLine) ==
    [type |-> "array", array |-> arr, highlights |-> highlights,
     comparisons |-> comparisons, sorted |-> sorted, algorithm |-> algorithm,
     description |-> [text |-> text, args |-> args], codeLine |-> codeLine]

\* const frames = []; const arr = [...array]
NewRun(arr) == [arr |-> arr, frames |-> <<>>, evaluated |-> 0, ret |-> 0]

\* frames.push(frame)
Push(s, frame) == [s EXCEPT !.frames = Append(@, frame)]

\* one more element-to-element comparison has been evaluated
Compared(s) == [s EXCEPT !.evaluated = @ + 1]

RECURSIVE bubbleInner(_, _, _, _)
\* generateBubbleSortFrames: `for (let j = ...; j < n - i - 1; j++)` from j on
bubbleInner(s, i, j, lines) ==
    IF j < Len(s.arr) - i - 1
    THEN LET shown == Push(s, ArrayFrame("Bubble Sort", s.arr, <<>>, <<j, j + 1>>,
                            <<>>, "Comparing elements at positions % and %",
                            <<j, j + 1>>, CodeLine(lines, "compare")))
             swapped == Swap(s.arr, j, j + 1)
             after ==
                 IF At(s.arr, j) > At(s.arr, j + 1)
                 THEN Push([Compared(shown) EXCEPT !.arr = swapped],
                           ArrayFrame("Bubble Sort", swapped, <<j, j + 1>>, <<>>,
                               <<>>, "Swapped elements at positions % and %",
                               <<j, j + 1>>, CodeLine(lines, "swap")))
                 ELSE Compared(shown)
         IN  bubbleInner(after, i, j + 1, lines)
    ELSE s

RECURSIVE bubbleOuter(_, _, _)
\* generateBubbleSortFrames: `for (let i = ...; i < n - 1; i++)` from i on
bubbleOuter(s, i, lines) ==
    LET n == Len(s.arr)
    IN  IF i < n - 1
        THEN LET pass == bubbleInner(s, i, 0, lines)
             IN  bubbleOuter(
                     Push(pass, ArrayFrame("Bubble Sort", pass.arr, <<>>, <<>>,
                              <<n - i - 1>>,
                              "Element at position % is now in correct position",
                              <<n - i - 1>>, CodeLine(lines, "sorted"))),
                     i + 1, lines)
        ELSE s

\* generateBubbleSortFrames whose final frame leaves the last index out of
\* `sorted` (Array.from with length n - 1)
generateBubbleSortFramesShortSorted(arr, lines) ==
    LET first == Push(NewRun(arr), ArrayFrame("Bubble Sort", arr, <<>>, <<>>, <<>>,
                          "Initial array", <<>>, CodeLine(lines, "init")))
        done == bubbleOuter(first, 0, lines)
    IN  Push(done, ArrayFrame("Bubble Sort", done.arr, <<>>, <<>>,
                       Indices(0, Len(arr) - 1), "Array is fully sorted!", <<>>,
                       CodeLine(lines, "complete")))

\* generateBubbleSortFrames(array, codeLines)
generateBubbleSortFrames(arr, lines) ==
    LET first == Push(NewRun(arr), ArrayFrame("Bubble Sort", arr, <<>>, <<>>, <<>>,
                          "Initial array", <<>>, CodeLine(lines, "init")))
        done == bubbleOuter(first, 0, lines)
    IN  Push(done, ArrayFrame("Bubble Sort", done.arr, <<>>, <<>>,
                       Indices(0, Len(arr)), "Array is fully sorted!", <<>>,
                       CodeLine(lines, "complete")))

RECURSIVE selectionInner(_, _, _)
\* generateSelectionSortFrames: `for (let j = ...; j < n; j++)` from j on;
\* s.ret is minIdx
selectionInner(s, j, lines) ==
    IF j < Len(s.arr)
    THEN LET shown == Push(s, ArrayFrame("Selection Sort", s.arr, <<s.ret>>, <<j>>,
                            <<>>,
                            "Comparing element at position % with current minimum",
                            <<j>>, CodeLine(lines, "compare")))
             after ==
                 IF At(s.arr, j) < At(s.arr, s.ret)
                 THEN Push([Compared(shown) EXCEPT !.ret = j],
                           ArrayFrame("Selection Sort", s.arr, <<j>>, <<>>, <<>>,
                               "New minimum found at position %", <<j>>,
                               CodeLine(lines, "newMin")))
                 ELSE Compared(shown)
         IN  selectionInner(after, j + 1, lines)
    ELSE s

RECURSIVE selectionOuter(_, _, _)
\* generateSelectionSortFrames: `for (let i = ...; i < n - 1; i++)` from i on
selectionOuter(s, i, lines) ==
    IF i < Len(s.arr) - 1
    THEN LET marked == Push([s EXCEPT !.ret = i],
                           ArrayFrame("Selection Sort", s.arr, <<i>>, <<>>, <<>>,
                               "Finding minimum element from position %", <<i>>,
                               CodeLine(lines, "findMin")))
             found == selectionInner(marked, i + 1, lines)
             minIdx == found.ret
             swapped == Swap(found.arr, i, minIdx)
             placed ==
                 IF minIdx # i
                 THEN Push([found EXCEPT !.arr = swapped],
                           ArrayFrame("Selection Sort", swapped, <<i, minIdx>>,
                               <<>>, <<>>, "Swapped elements at positions % and %",
                               <<i, minIdx>>, CodeLine(lines, "swap")))
                 ELSE found
         IN  selectionOuter(
                 Push(placed, ArrayFrame("Selection Sort", placed.arr, <<>>, <<>>,
                          Indices(0, i + 1), "Position % is now sorted", <<i>>,
                          CodeLine(lines, "sorted"))),
                 i + 1, lines)
    ELSE s

\* generateSelectionSortFrames(array, codeLines)
generateSelectionSortFrames(arr, lines) ==
    LET first == Push(NewRun(arr), ArrayFrame("Selection Sort", arr, <<>>, <<>>,
                          <<>>, "Initial array", <<>>, CodeLine(lines, "init")))
        done == selectionOuter(first, 0, lines)
    IN  Push(done, ArrayFrame("Selection Sort", done.arr, <<>>, <<>>,
                       Indices(0, Len(arr)), "Array is fully sorted!", <<>>,
                       CodeLine(lines, "complete")))

RECURSIVE insertionWhile(_, _, _, _, _)
\* generateInsertionSortFrames: `while (j >= 0 && arr[j] > key)` from j on;
\* the run handed back has ret = j as the loop leaves it
insertionWhile(s, i, key, j, lines) ==
    IF j >= 0
    THEN IF At(s.arr, j) > key
         THEN LET shown == Push(Compared(s),
                               ArrayFrame("Insertion Sort", s.arr, <<i>>, <<j>>,
                                   Indices(0, i), "Comparing % with %",
                                   <<key, At(s.arr, j)>>,
                                   CodeLine(lines, "compare")))
                  shifted == Put(s.arr, j + 1, At(s.arr, j))
              IN  insertionWhile(
                      Push([shown EXCEPT !.arr = shifted],
                           ArrayFrame("Insertion Sort", shifted, <<j + 1>>, <<>>,
                               Indices(0, i), "Shifting % to the right",
                               <<At(shifted, j)>>, CodeLine(lines, "shift"))),
                      i, key, j - 1, lines)
         ELSE [Compared(s) EXCEPT !.ret = j]
    ELSE [s EXCEPT !.ret = j]

RECURSIVE insertionOuter(_, _, _)
\* generateInsertionSortFrames: `for (let i = ...; i < n; i++)` from i on
insertionOuter(s, i, lines) ==
    IF i < Len(s.arr)
    THEN LET key == At(s.arr, i)
             picked == Push(s, ArrayFrame("Insertion Sort", s.arr, <<i>>, <<>>,
                             Indices(0, i), "Inserting element % into sorted portion",
                             <<key>>, CodeLine(lines, "insert")))
             moved == insertionWhile(picked, i, key, i - 1, lines)
             j == moved.ret
             placed == Put(moved.arr, j + 1, key)
         IN  insertionOuter(
                 Push([moved EXCEPT !.arr = placed],
                      ArrayFrame("Insertion Sort", placed, <<j + 1>>, <<>>,
                          Indices(0, i + 1), "Inserted % at position %",
                          <<key, j + 1>>, CodeLine(lines, "place"))),
                 i + 1, lines)
    ELSE s

\* generateInsertionSortFrames(array, codeLines)
generateInsertionSortFrames(arr, lines) ==
    LET first == Push(NewRun(arr), ArrayFrame("Insertion Sort", arr, <<>>, <<>>,
                          <<0>>,
                          "Initial array - first element is considered sorted",
                          <<>>, CodeLine(lines, "init")))
        done == insertionOuter(first, 1, lines)
    IN  Push(done, ArrayFrame("Insertion Sort", done.arr, <<>>, <<>>,
                       Indices(0, Len(arr)), "Array is fully sorted!", <<>>,
                       CodeLine(lines, "complete")))

RECURSIVE mergeCompare(_, _, _, _, _, _, _, _, _)
\* merge: `while (i < leftArr.length && j < rightArr.length)` from (i, j, k)
\* on; the run handed back has ret = <<i, j, k>> as the loop leaves them
mergeCompare(s, leftArr, rightArr, left, mid, i, j, k, lines) ==
    IF i < Len(leftArr) /\ j < Len(rightArr)
    THEN LET shown == Push(s, ArrayFrame("Merge Sort", s.arr, <<k>>,
                            <<left + i, mid + 1 + j>>, <<>>, "Comparing % and %",
                            <<At(leftArr, i), At(rightArr, j)>>,
                            CodeLine(lines, "compare")))
             takeLeft == At(leftArr, i) <= At(rightArr, j)
             written == Put(s.arr, k, IF takeLeft THEN At(leftArr, i)
                                                 ELSE At(rightArr, j))
         IN  mergeCompare(
                 Push([Compared(shown) EXCEPT !.arr = written],
                      ArrayFrame("Merge Sort", written, <<k>>, <<>>, <<>>,
                          "Placed % at position %", <<At(written, k), k>>,
                          CodeLine(lines, "place"))),
                 leftArr, rightArr, left, mid,
                 IF takeLeft THEN i + 1 ELSE i,
                 IF takeLeft THEN j ELSE j + 1,
                 k + 1, lines)
    ELSE [s EXCEPT !.ret = <<i, j, k>>]

RECURSIVE mergeCopySilent(_, _, _, _, _)
\* a tail copy that pushes no frame
mergeCopySilent(s, rest, i, k, lines) ==
    IF i < Len(rest)
    THEN mergeCopySilent([s EXCEPT !.arr = Put(s.arr, k, At(rest, i))],
                         rest, i + 1, k + 1, lines)
    ELSE [s EXCEPT !.ret = k]

RECURSIVE mergeCopy(_, _, _, _, _)
\* merge: `while (i < leftArr.length)` and `while (j < rightArr.length)`:
\* copies rest[i..] to arr[k..]; the run handed back has ret = k
mergeCopy(s, rest, i, k, lines) ==
    IF i < Len(rest)
    THEN LET written == Put(s.arr, k, At(rest, i))
         IN  mergeCopy(
                 Push([s EXCEPT !.arr = written],
                      ArrayFrame("Merge Sort", written, <<k>>, <<>>, <<>>,
                          "Copying remaining element %", <<At(written, k)>>,
                          CodeLine(lines, "copy"))),
                 rest, i + 1, k + 1, lines)
    ELSE [s EXCEPT !.ret = k]

\* merge(arr, left, mid, right, codeLines)
merge(s, left, mid, right, lines) ==
    LET leftArr == Slice(s.arr, left, mid + 1)
        rightArr == Slice(s.arr, mid + 1, right + 1)
        compared == mergeCompare(s, leftArr, rightArr, left, mid, 0, 0, left, lines)
        fromLeft == mergeCopy(compared, leftArr, compared.ret[1], compared.ret[3],
                              lines)
    IN  mergeCopy(fromLeft, rightArr, compared.ret[2], fromLeft.ret, lines)

RECURSIVE mergeSort(_, _, _, _)
\* mergeSort(arr, left, right)
mergeSort(s, left, right, lines) ==
    IF left >= right
    THEN s
    ELSE LET mid == Mid(left, right)
             divided == Push(s, ArrayFrame("Merge Sort", s.arr,
                              Indices(left, right - left + 1), <<>>, <<>>,
                              "Dividing array from % to %", <<left, right>>,
                              CodeLine(lines, "divide")))
         IN  merge(mergeSort(mergeSort(divided, left, mid, lines),
                             mid + 1, right, lines),
                   left, mid, right, lines)

\* generateMergeSortFrames(array, codeLines)
generateMergeSortFrames(arr, lines) ==
    LET first == Push(NewRun(arr), ArrayFrame("Merge Sort", arr, <<>>, <<>>, <<>>,
                          "Initial array", <<>>, CodeLine(lines, "init")))
        done == mergeSort(first, 0, Len(arr) - 1, lines)
    IN  Push(done, ArrayFrame("Merge Sort", done.arr, <<>>, <<>>,
                       Indices(0, Len(arr)), "Array is fully sorted!", <<>>,
                       CodeLine(lines, "complete")))

RECURSIVE partitionLoopOrEqual(_, _, _, _, _, _)
\* a partition loop that also moves the elements equal to the pivot
\* (`arr[j] <= pivot`)
partitionLoopOrEqual(s, high, pivot, i, j, lines) ==
    IF j < high
    THEN LET shown == Push(s, ArrayFrame("Quick Sort", s.arr, <<high>>, <<j>>, <<>>,
                            "Comparing % with pivot %", <<At(s.arr, j), pivot>>,
                            CodeLine(lines, "compare")))
             swapped == Swap(s.arr, i + 1, j)
         IN  IF At(s.arr, j) <= pivot
             THEN partitionLoopOrEqual(
                      Push([Compared(shown) EXCEPT !.arr = swapped],
                           ArrayFrame("Quick Sort", swapped, <<i + 1, j>>, <<>>,
                               <<>>, "Swapped % and %",
                               <<At(swapped, j), At(swapped, i + 1)>>,
                               CodeLine(lines, "swap"))),
                      high, pivot, i + 1, j + 1, lines)
             ELSE partitionLoopOrEqual(Compared(shown), high, pivot, i, j + 1, lines)
    ELSE [s EXCEPT !.ret = i]

RECURSIVE partitionLoop(_, _, _, _, _, _)
\* partition: `for (let j = low; j < high; j++)` from j on; the run handed
\* back has ret = i as the loop leaves it
partitionLoop(s, high, pivot, i, j, lines) ==
    IF j < high
    THEN LET shown == Push(s, ArrayFrame("Quick Sort", s.arr, <<high>>, <<j>>, <<>>,
                            "Comparing % with pivot %", <<At(s.arr, j), pivot>>,
                            CodeLine(lines, "compare")))
             swapped == Swap(s.arr, i + 1, j)
         IN  IF At(s.arr, j) < pivot
             THEN partitionLoop(
                      Push([Compared(shown) EXCEPT !.arr = swapped],
                           ArrayFrame("Quick Sort", swapped, <<i + 1, j>>, <<>>,
                               <<>>, "Swapped % and %",
                               <<At(swapped, j), At(swapped, i + 1)>>,
                               CodeLine(lines, "swap"))),
                      high, pivot, i + 1, j + 1, lines)
             ELSE partitionLoop(Compared(shown), high, pivot, i, j + 1, lines)
    ELSE [s EXCEPT !.ret = i]

\* partition(arr, low, high, codeLines): the run handed back has ret = i + 1
partition(s, low, high, lines) ==
    LET pivot == At(s.arr, high)
        chosen == Push(s, ArrayFrame("Quick Sort", s.arr, <<high>>, <<>>, <<>>,
                         "Pivot selected: % at position %", <<pivot, high>>,
                         CodeLine(lines, "pivot")))
        scanned == partitionLoop(chosen, high, pivot, low - 1, low, lines)
        i == scanned.ret
        placed == Swap(scanned.arr, i + 1, high)
    IN  [Push([scanned EXCEPT !.arr = placed],
              ArrayFrame("Quick Sort", placed, <<i + 1>>, <<>>, <<>>,
                  "Pivot % placed at correct position %", <<pivot, i + 1>>,
                  CodeLine(lines, "place")))
           EXCEPT !.ret = i + 1]

RECURSIVE quickSort(_, _, _, _)
\* quickSort(arr, low, high)
quickSort(s, low, high, lines) ==
    IF low < high
    THEN LET parted == partition(s, low, high, lines)
             pi == parted.ret
         IN  quickSort(quickSort(parted, low, pi - 1, lines), pi + 1, high, lines)
    ELSE s

\* generateQuickSortFrames(array, codeLines)
generateQuickSortFrames(arr, lines) ==
    LET first == Push(NewRun(arr), ArrayFrame("Quick Sort", arr, <<>>, <<>>, <<>>,
                          "Initial array", <<>>, CodeLine(lines, "init")))
        done == quickSort(first, 0, Len(arr) - 1, lines)
    IN  Push(done, ArrayFrame("Quick Sort", done.arr, <<>>, <<>>,
                       Indices(0, Len(arr)), "Array is fully sorted!", <<>>,
                       CodeLine(lines, "complete")))

\* `k < codeLines.length ? codeLines[k] : null` of the search and graph
\* producers: the object extractCodeLines builds has no `length`, the test is
\* false and the frame gets null
IndexedCodeLine(lines, k) == Null

\* A frame of type "search".  A frame built without `completed` has
\* completed = FALSE here.
SearchFrame(arr, currentIndex, tgt, isFound, completed, text, args, codeLine) ==
    [type |-> "search", array |-> arr, currentIndex |-> currentIndex,
     target |-> tgt, found |-> isFound, completed |-> completed,
     step |-> [text |-> text, args |-> args], codeLine |-> codeLine]

RECURSIVE linearScanNoBreak(_, _, _, _)
\* a scan that goes on after it has found the target (no `break`)
linearScanNoBreak(s, tgt, i, lines) ==
    IF i < Len(s.arr)
    THEN LET hit == At(s.arr, i) = tgt
             scanned == Push(s, SearchFrame(s.arr, i, tgt, hit, FALSE,
                              IF hit THEN "Checking index %: % == % (Found!)"
                                     ELSE "Checking index %: % != %",
                              <<i, At(s.arr, i), tgt>>, IndexedCodeLine(lines, i)))
         IN  linearScanNoBreak(
                 IF hit
                 THEN Push(scanned, SearchFrame(s.arr, i, tgt, TRUE, TRUE,
                               "Element % found at index %", <<tgt, i>>, Null))
                 ELSE scanned,
                 tgt, i + 1, lines)
    ELSE s

RECURSIVE linearScan(_, _, _, _)
\* generateLinearSearchFrames: `for (let i = ...; i < array.length; i++)` from
\* i on, with its break
linearScan(s, tgt, i, lines) ==
    IF i < Len(s.arr)
    THEN LET hit == At(s.arr, i) = tgt
             scanned == Push(s, SearchFrame(s.arr, i, tgt, hit, FALSE,
                              IF hit THEN "Checking index %: % == % (Found!)"
                                     ELSE "Checking index %: % != %",
                              <<i, At(s.arr, i), tgt>>, IndexedCodeLine(lines, i)))
         IN  IF hit
             THEN Push(scanned, SearchFrame(s.arr, i, tgt, TRUE, TRUE,
                           "Element % found at index %", <<tgt, i>>, Null))
             ELSE linearScan(scanned, tgt, i + 1, lines)
    ELSE s

\* a linear search that scans only when it was given annotations
generateLinearSearchFramesIfAnnotated(arr, tgt, lines) ==
    LET done == IF DOMAIN lines = {} THEN NewRun(arr)
                ELSE linearScan(NewRun(arr), tgt, 0, lines)
    IN  IF Len(done.frames) = 0 \/ ~done.frames[Len(done.frames)].found
        THEN Push(done, SearchFrame(arr, -1, tgt, FALSE, TRUE,
                      "Element % not found in array", <<tgt>>, Null))
        ELSE done

\* generateLinearSearchFrames(array, target, codeLines)
generateLinearSearchFrames(arr, tgt, lines) ==
    LET done == linearScan(NewRun(arr), tgt, 0, lines)
    IN  IF Len(done.frames) = 0 \/ ~done.frames[Len(done.frames)].found
        THEN Push(done, SearchFrame(arr, -1, tgt, FALSE, TRUE,
                      "Element % not found in array", <<tgt>>, Null))
        ELSE done

\* A frame of type "binary_search".  A frame built without `found` or
\* `completed` has FALSE there.
BinarySearchFrame(arr, left, right, mid, tgt, isFound, completed, text, args, codeLine) ==
    [type |-> "binary_search", array |-> arr, left |-> left, right |-> right,
     mid |-> mid, target |-> tgt, found |-> isFound, completed |-> completed,
     step |-> [text |-> text, args |-> args], codeLine |-> codeLine]

RECURSIVE binaryLoopDescending(_, _, _, _, _)
\* a loop that searches the right half when the middle element is larger than
\* the target, as for a descending array
binaryLoopDescending(s, tgt, left, right, lines) ==
    IF left <= right
    THEN LET mid == Mid(left, right)
             probed == Push(s, BinarySearchFrame(s.arr, left, right, mid, tgt,
                             FALSE, FALSE, "Checking middle element at index %: %",
                             <<mid, At(s.arr, mid)>>,
                             IndexedCodeLine(lines, Len(s.frames))))
         IN  IF At(s.arr, mid) = tgt
             THEN [Push(probed, BinarySearchFrame(s.arr, left, right, mid, tgt,
                            TRUE, TRUE, "Element % found at index %",
                            <<tgt, mid>>, Null))
                     EXCEPT !.ret = <<left, right>>]
             ELSE IF At(s.arr, mid) > tgt
             THEN binaryLoopDescending(
                      Push(probed, BinarySearchFrame(s.arr, mid + 1, right, -1,
                               tgt, FALSE, FALSE, "% < %, search right half",
                               <<At(s.arr, mid), tgt>>, Null)),
                      tgt, mid + 1, right, lines)
             ELSE binaryLoopDescending(
                      Push(probed, BinarySearchFrame(s.arr, left, mid - 1, -1,
                               tgt, FALSE, FALSE, "% > %, search left half",
                               <<At(s.arr, mid), tgt>>, Null)),
                      tgt, left, mid - 1, lines)
    ELSE [s EXCEPT !.ret = <<left, right>>]

RECURSIVE binaryLoop(_, _, _, _, _)
\* generateBinarySearchFrames: `while (left <= right)` from (left, right) on,
\* with its break; the run handed back has ret = <<left, right>>
binaryLoop(s, tgt, left, right, lines) ==
    IF left <= right
    THEN LET mid == Mid(left, right)
             probed == Push(s, BinarySearchFrame(s.arr, left, right, mid, tgt,
                             FALSE, FALSE, "Checking middle element at index %: %",
                             <<mid, At(s.arr, mid)>>,
                             IndexedCodeLine(lines, Len(s.frames))))
         IN  IF At(s.arr, mid) = tgt
             THEN [Push(probed, BinarySearchFrame(s.arr, left, right, mid, tgt,
                            TRUE, TRUE, "Element % found at index %",
                            <<tgt, mid>>, Null))
                     EXCEPT !.ret = <<left, right>>]
             ELSE IF At(s.arr, mid) < tgt
             THEN binaryLoop(
                      Push(probed, BinarySearchFrame(s.arr, mid + 1, right, -1,
                               tgt, FALSE, FALSE, "% < %, search right half",
                               <<At(s.arr, mid), tgt>>, Null)),
                      tgt, mid + 1, right, lines)
             ELSE binaryLoop(
                      Push(probed, BinarySearchFrame(s.arr, left, mid - 1, -1,
                               tgt, FALSE, FALSE, "% > %, search left half",
                               <<At(s.arr, mid), tgt>>, Null)),
                      tgt, left, mid - 1, lines)
    ELSE [s EXCEPT !.ret = <<left, right>>]

\* generateBinarySearchFrames(array, target, codeLines)
generateBinarySearchFrames(arr, tgt, lines) ==
    LET done == binaryLoop(NewRun(arr), tgt, 0, Len(arr) - 1, lines)
    IN  IF Len(done.frames) = 0 \/ ~done.frames[Len(done.frames)].found
        THEN Push(done, BinarySearchFrame(arr, done.ret[1], done.ret[2], -1, tgt,
                      FALSE, TRUE, "Element % not found in array", <<tgt>>, Null))
        ELSE done

\* A frame of type "graph": `visited`, `queue` and `traversalOrder` are copies
\* of the traversal's locals t.  A frame built without `completed` has FALSE
\* there.
GraphFrame(gr, t, queue, current, completed, text, args, codeLine) ==
    [type |-> "graph", graph |-> gr, visited |-> t.visited, queue |-> queue,
     current |-> current, traversalOrder |-> t.traversalOrder,
     completed |-> completed, step |-> [text |-> text, args |-> args],
     codeLine |-> codeLine]

RECURSIVE Fill(_, _)
\* new Array(count).fill(v)
Fill(count, v) == IF count = 0 THEN <<>> ELSE Append(Fill(count - 1, v), v)

\* const frames = []; const visited = new Array(graph.length).fill(false);
\* const queue = [...]; const traversalOrder = []
NewTraversal(gr, queue) ==
    [visited |-> Fill(Len(gr), FALSE), queue |-> queue,
     traversalOrder |-> <<>>, frames |-> <<>>]

\* visited[vertex] = true
Visit(t, vertex) == [t EXCEPT !.visited[vertex + 1] = TRUE]

RECURSIVE bfsNeighbours(_, _, _, _)
\* generateBFSFrames: `for (const neighbor of graph[vertex])` from the k-th
\* neighbour (1-based) on
bfsNeighbours(t, gr, vertex, k) ==
    IF k <= Len(At(gr, vertex))
    THEN LET neighbor == At(gr, vertex)[k]
             queued == [Visit(t, neighbor) EXCEPT !.queue = Append(@, neighbor)]
         IN  IF ~At(t.visited, neighbor)
             THEN bfsNeighbours(
                      Push(queued, GraphFrame(gr, queued, queued.queue, vertex,
                               FALSE, "Added vertex % to queue", <<neighbor>>,
                               Null)),
                      gr, vertex, k + 1)
             ELSE bfsNeighbours(t, gr, vertex, k + 1)
    ELSE t

RECURSIVE bfsLoopTakesLast(_, _, _)
\* a loop that takes the vertex added last (queue.pop()) instead of the one
\* added first
bfsLoopTakesLast(t, gr, lines) ==
    IF Len(t.queue) > 0
    THEN LET vertex == t.queue[Len(t.queue)]
             taken == [t EXCEPT !.queue = SubSeq(@, 1, Len(@) - 1),
                                !.traversalOrder = Append(@, vertex)]
             visiting == Push(taken, GraphFrame(gr, taken, taken.queue, vertex,
                               FALSE, "Visiting vertex %", <<vertex>>,
                               IndexedCodeLine(lines, Len(t.frames))))
         IN  bfsLoopTakesLast(bfsNeighbours(visiting, gr, vertex, 1), gr, lines)
    ELSE t

RECURSIVE bfsLoop(_, _, _)
\* generateBFSFrames: `while (queue.length > 0)`
bfsLoop(t, gr, lines) ==
    IF Len(t.queue) > 0
    THEN LET vertex == Head(t.queue)
             taken == [t EXCEPT !.queue = Tail(@),
                                !.traversalOrder = Append(@, vertex)]
             visiting == Push(taken, GraphFrame(gr, taken, taken.queue, vertex,
                               FALSE, "Visiting vertex %", <<vertex>>,
                               IndexedCodeLine(lines, Len(t.frames))))
         IN  bfsLoop(bfsNeighbours(visiting, gr, vertex, 1), gr, lines)
    ELSE t

\* generateBFSFrames that forgets `visited[start] = true`
generateBFSFramesStartUnmarked(gr, from, lines) ==
    LET begun == NewTraversal(gr, <<from>>)
        first == Push(begun, GraphFrame(gr, begun, begun.queue, from, FALSE,
                          "Starting BFS from vertex %", <<from>>, 0))
        done == bfsLoop(first, gr, lines)
    IN  Push(done, GraphFrame(gr, done, <<>>, -1, TRUE,
                       "BFS completed. Traversal order: %", done.traversalOrder,
                       Null))

\* generateBFSFrames(graph, start, codeLines)
generateBFSFrames(gr, from, lines) ==
    LET begun == Visit(NewTraversal(gr, <<from>>), from)
        first == Push(begun, GraphFrame(gr, begun, begun.queue, from, FALSE,
                          "Starting BFS from vertex %", <<from>>, 0))
        done == bfsLoop(first, gr, lines)
    IN  Push(done, GraphFrame(gr, done, <<>>, -1, TRUE,
                       "BFS completed. Traversal order: %", done.traversalOrder,
                       Null))

RECURSIVE dfsUtil(_, _, _, _)
RECURSIVE dfsNeighbours(_, _, _, _, _)
RECURSIVE dfsNeighboursReversed(_, _, _, _, _)
\* a neighbour loop that takes the neighbours from the last listed to the first
dfsNeighboursReversed(t, gr, vertex, k, lines) ==
    IF k <= Len(At(gr, vertex))
    THEN LET neighbor == At(gr, vertex)[Len(At(gr, vertex)) + 1 - k]
         IN  dfsNeighboursReversed(
                 IF ~At(t.visited, neighbor)
                 THEN dfsUtil(t, gr, neighbor, lines)
                 ELSE t,
                 gr, vertex, k + 1, lines)
    ELSE t

\* dfsUtil: `for (const neighbor of graph[vertex])` from the k-th neighbour
\* (1-based) on
dfsNeighbours(t, gr, vertex, k, lines) ==
    IF k <= Len(At(gr, vertex))
    THEN LET neighbor == At(gr, vertex)[k]
         IN  dfsNeighbours(
                 IF ~At(t.visited, neighbor)
                 THEN dfsUtil(t, gr, neighbor, lines)
                 ELSE t,
                 gr, vertex, k + 1, lines)
    ELSE t

\* dfsUtil(vertex)
dfsUtil(t, gr, vertex, lines) ==
    LET entered == [Visit(t, vertex) EXCEPT !.traversalOrder = Append(@, vertex)]
        visiting == Push(entered, GraphFrame(gr, entered, <<>>, vertex, FALSE,
                          "Visiting vertex %", <<vertex>>,
                          IndexedCodeLine(lines, Len(t.frames))))
    IN  dfsNeighbours(visiting, gr, vertex, 1, lines)

\* generateDFSFrames(graph, start, codeLines)
generateDFSFrames(gr, from, lines) ==
    LET fresh == NewTraversal(gr, <<>>)
        first == Push(fresh, GraphFrame(gr, fresh, <<>>, from, FALSE,
                          "Starting DFS from vertex %", <<from>>, 0))
        done == dfsUtil(first, gr, from, lines)
    IN  Push(done, GraphFrame(gr, done, <<>>, -1, TRUE,
                       "DFS completed. Traversal order: %", done.traversalOrder,
                       Null))

\* simulateGraphOutput: `const visited = new Array(graph.length).fill(false);
\* const result = []` with the queue or stack holding `pending`
NewOutput(gr, pending) ==
    [visited |-> Fill(Len(gr), FALSE), pending |-> pending, result |-> <<>>]

RECURSIVE outputNeighbours(_, _, _, _)
\* simulateGraphOutput: `for (const neighbor of graph[vertex])` of either
\* branch, from the k-th neighbour (1-based) on: an unvisited neighbour is
\* marked and pushed on the end of the queue or stack
outputNeighbours(t, gr, vertex, k) ==
    IF k <= Len(At(gr, vertex))
    THEN LET neighbor == At(gr, vertex)[k]
         IN  outputNeighbours(
                 IF ~At(t.visited, neighbor)
                 THEN [Visit(t, neighbor) EXCEPT !.pending = Append(@, neighbor)]
                 ELSE t,
                 gr, vertex, k + 1)
    ELSE t

RECURSIVE outputQueueLoop(_, _)
\* simulateGraphOutput, "BFS": `while (queue.length > 0)` with queue.shift()
outputQueueLoop(t, gr) ==
    IF Len(t.pending) > 0
    THEN LET vertex == Head(t.pending)
             taken == [t EXCEPT !.pending = Tail(@),
                                !.result = Append(@, vertex)]
         IN  outputQueueLoop(outputNeighbours(taken, gr, vertex, 1), gr)
    ELSE t

RECURSIVE outputStackLoop(_, _)
\* simulateGraphOutput, "DFS": `while (stack.length > 0)` with stack.pop()
outputStackLoop(t, gr) ==
    IF Len(t.pending) > 0
    THEN LET vertex == t.pending[Len(t.pending)]
             taken == [t EXCEPT !.pending = SubSeq(@, 1, Len(@) - 1),
                                !.result = Append(@, vertex)]
         IN  outputStackLoop(outputNeighbours(taken, gr, vertex, 1), gr)
    ELSE t

\* simulateGraphOutput(algorithmName, graph, start): the order its last line
\* prints
simulateGraphOutput(algorithmName, gr, from) ==
    LET begun == Visit(NewOutput(gr, <<from>>), from)
    IN  IF algorithmName = "BFS" THEN outputQueueLoop(begun, gr).result
        ELSE IF algorithmName = "DFS" THEN outputStackLoop(begun, gr).result
        ELSE <<>>

----------------------------------------------------------------------------
(***************************************************************************)
(* The producers applied to inputs drawn from bounded sets.  A behaviour   *)
(* picks an input, then calls one producer on it up to MaxCalls times; the *)
(* engine stays as constructed.                                            *)
(***************************************************************************)

\* the elements of a sequence
Range(q) == {q[k] : k \in 1..Len(q)}

\* the elements of a finite set of numbers in ascending order
Ascending(S) ==
    CHOOSE q \in [1..Cardinality(S) -> S] :
        \A a, b \in 1..Cardinality(S) : a < b => q[a] < q[b]

\* q back to front
Reverse(q) == [k \in 1..Len(q) |-> q[Len(q) + 1 - k]]

\* the input arrays: 1..MaxLen numbers out of 1..MaxVal, duplicates allowed
Arrays == UNION {[1..n -> 1..MaxVal] : n \in 1..MaxLen}

\* the search targets: 0 occurs in no input array
Targets == 0..MaxVal

\* the keys extractCodeLines looks for, in the order of its tests
CodeLineKeys ==
    <<"init", "compare", "swap", "sorted", "complete", "findMin", "newMin",
      "divide", "place", "copy", "pivot">>

\* extractCodeLines(code) for code without annotation comments: {}
NoCodeLines == <<>>

\* extractCodeLines(code) for code whose line k holds the k-th annotation
\* comment: "init" on line 0, "compare" on line 1, ...
AnnotatedCodeLines ==
    [key \in Range(CodeLineKeys) |->
        (CHOOSE k \in 1..Len(CodeLineKeys) : CodeLineKeys[k] = key) - 1]

\* the adjacency lists over vertices 0..MaxVertices-1 without self-loops, each
\* vertex's neighbours listed in ascending order or each in descending order
Graphs ==
    LET adjacent == {f \in [1..MaxVertices -> SUBSET (0..(MaxVertices - 1))] :
                        \A v \in 1..MaxVertices : (v - 1) \notin f[v]}
    IN  {[v \in 1..MaxVertices |-> Ascending(f[v])] : f \in adjacent}
        \cup {[v \in 1..MaxVertices |-> Reverse(Ascending(f[v]))] : f \in adjacent}

\* extractSearchTarget(code) || 22
DefaultTarget == 22

\* extractGraphData(code) || [[1, 2], [0, 3, 4], [0, 5], [1], [1, 5], [2, 4]]
DefaultGraph == <<<<1, 2>>, <<0, 3, 4>>, <<0, 5>>, <<1>>, <<1, 5>>, <<2, 4>>>>

RECURSIVE InsertAscending(_, _)
\* q, which is ascending, with v put after the elements that are <= v
InsertAscending(q, v) ==
    IF q = <<>> THEN <<v>>
    ELSE IF v < Head(q) THEN <<v>> \o q
    ELSE <<Head(q)>> \o InsertAscending(Tail(q), v)

\* a sort that hands back its argument as it is
sortKeepsOrder(arr) == arr

RECURSIVE sort(_)
\* [...arr].sort((a, b) => a - b): a copy of arr in ascending order
sort(arr) ==
    IF arr = <<>> THEN <<>>
    ELSE InsertAscending(sort(SubSeq(arr, 1, Len(arr) - 1)), arr[Len(arr)])

ProducerInit ==
    /\ EngineInit
    /\ PageInit
    /\ NoProducerCall
    /\ ScriptPageInit
    /\ codeLines \in {NoCodeLines, AnnotatedCodeLines}
    /\ \/ /\ array \in Arrays \cup {DefaultArray}
          /\ target \in Targets \cup {DefaultTarget}
          /\ graph = <<>>
          /\ start = 0
       \/ /\ graph \in Graphs
          /\ start \in 0..(MaxVertices - 1)
          /\ array = <<>>
          /\ target = 0
       \/ /\ graph = DefaultGraph
          /\ start = 0
          /\ array = <<>>
          /\ target = 0

\* the producer `id` is called and returns: the caller keeps the frames
Returned(id, frameList, comparisons) ==
    /\ producer \in {"none", id}
    /\ calls < MaxCalls
    /\ producer' = id
    /\ calls' = calls + 1
    /\ result' = frameList
    /\ evaluated' = comparisons
    /\ UNCHANGED <<engineVars, timerVars, runVars, histVars, pageVars, scriptVars>>

\* bubble sort that works on the caller's array instead of on a copy
\* (`const arr = array`)
CallBubbleInPlace ==
    /\ Len(array) > 0
    /\ LET run == generateBubbleSortFrames(array, codeLines)
       IN  /\ Returned("bubble", run.frames, run.evaluated)
           /\ array' = run.arr
    /\ UNCHANGED <<target, graph, start, codeLines>>
    /\ UNCHANGED traversalOutput

\* sortingVisualizer.generateBubbleSortFrames(testArray, codeLines)
CallBubble ==
    /\ Len(array) > 0
    /\ LET run == generateBubbleSortFrames(array, codeLines)
       IN  Returned("bubble", run.frames, run.evaluated)
    /\ UNCHANGED inputVars
    /\ UNCHANGED traversalOutput

\* sortingVisualizer.generateSelectionSortFrames(testArray, codeLines)
CallSelection ==
    /\ Len(array) > 0
    /\ LET run == generateSelectionSortFrames(array, codeLines)
       IN  Returned("selection", run.frames, run.evaluated)
    /\ UNCHANGED inputVars
    /\ UNCHANGED traversalOutput

\* sortingVisualizer.generateInsertionSortFrames(testArray, codeLines)
CallInsertion ==
    /\ Len(array) > 0
    /\ LET run == generateInsertionSortFrames(array, codeLines)
       IN  Returned("insertion", run.frames, run.evaluated)
    /\ UNCHANGED inputVars
    /\ UNCHANGED traversalOutput

\* sortingVisualizer.generateMergeSortFrames(testArray, codeLines)
CallMerge ==
    /\ Len(array) > 0
    /\ LET run == generateMergeSortFrames(array, codeLines)
       IN  Returned("merge", run.frames, run.evaluated)
    /\ UNCHANGED inputVars
    /\ UNCHANGED traversalOutput

\* sortingVisualizer.generateQuickSortFrames(testArray, codeLines)
CallQuick ==
    /\ Len(array) > 0
    /\ LET run == generateQuickSortFrames(array, codeLines)
       IN  Returned("quick", run.frames, run.evaluated)
    /\ UNCHANGED inputVars
    /\ UNCHANGED traversalOutput

\* sortingVisualizer.generateLinearSearchFrames(testArray, searchTarget, codeLines)
CallLinearSearch ==
    /\ Len(array) > 0
    /\ LET run == generateLinearSearchFrames(array, target, codeLines)
       IN  Returned("linear_search", run.frames, run.evaluated)
    /\ UNCHANGED inputVars
    /\ UNCHANGED traversalOutput

\* const sortedArray = [...testArray].sort((a, b) => a - b);
\* sortingVisualizer.generateBinarySearchFrames(sortedArray, binaryTarget, codeLines)
CallBinarySearch ==
    /\ Len(array) > 0
    /\ LET sortedArray == sort(array)
           run == generateBinarySearchFrames(sortedArray, target, codeLines)
       IN  Returned("binary_search", run.frames, run.evaluated)
    /\ UNCHANGED inputVars
    /\ UNCHANGED traversalOutput

\* case "bfs": sortingVisualizer.generateBFSFrames(bfsGraph, 0, codeLines);
\* simulateGraphOutput("BFS", bfsGraph, 0)
CallBFS ==
    /\ Len(graph) > 0
    /\ Returned("bfs", generateBFSFrames(graph, start, codeLines).frames, 0)
    /\ traversalOutput' = simulateGraphOutput("BFS", graph, start)
    /\ UNCHANGED inputVars

\* case "dfs": sortingVisualizer.generateDFSFrames(dfsGraph, 0, codeLines);
\* simulateGraphOutput("DFS", dfsGraph, 0)
CallDFS ==
    /\ Len(graph) > 0
    /\ Returned("dfs", generateDFSFrames(graph, start, codeLines).frames, 0)
    /\ traversalOutput' = simulateGraphOutput("DFS", graph, start)
    /\ UNCHANGED inputVars

ProducerNext ==
    \/ CallBubble
    \/ CallSelection
    \/ CallInsertion
    \/ CallMerge
    \/ CallQuick
    \/ CallLinearSearch
    \/ CallBinarySearch
    \/ CallBFS
    \/ CallDFS

ProducerSpec == ProducerInit /\ [][ProducerNext]_vars

----------------------------------------------------------------------------
(***************************************************************************)
(* CodeAnalyzer.  A source text is a record of its words, in order on one  *)
(* line and separated by blanks, and of its brace groups.  A regular       *)
(* expression of detectAlgorithm is the sequence of its literal pieces,    *)
(* which the source joins by `.*`.                                         *)
(***************************************************************************)

\* the words the explored texts are made of
Words == {"for (", "swap", "Bubble", "binarySearch", "log", "pivot", "x"}

\* the piece sequences of the patterns below that match inside one word,
\* letter case ignored (RegExp flag "i")
Holds(word) ==
    CASE word = "for (" -> {<<"for">>}
      [] word = "swap" -> {<<"swap">>}
      [] word = "Bubble" -> {<<"bubble">>}
      [] word = "binarySearch" ->
            {<<"binary">>, <<"search">>, <<"binary", "search">>,
             <<"binarySearch">>, <<"i">>}
      [] word = "pivot" -> {<<"pivot">>, <<"i">>}
      [] OTHER -> {}

\* the strings estimateComplexity looks for that a word includes, letter case
\* observed (String.prototype.includes)
Includes(word) ==
    CASE word = "log" -> {"log"}
      [] word = "binarySearch" -> {"binary"}
      [] OTHER -> {}

\* detectAlgorithm: const algorithms = [...].  The pieces "merge$$",
\* "right$$", "fib$$n-1$$" and "fib$$n-2$$" hold `$` anchors in mid-pattern
\* and match no text.
algorithms ==
    << [name |-> "bubble",
        patterns |-> << <<"bubble">>, <<"Bubble Sort">>,
                        <<"for", "for", "swap">>, <<"arr[j]", "arr[j+1]">> >>],
       [name |-> "selection",
        patterns |-> << <<"selection">>, <<"Selection Sort">>,
                        <<"min", "=", "i">>, <<"findMin">> >>],
       [name |-> "insertion",
        patterns |-> << <<"insertion">>, <<"Insertion Sort">>,
                        <<"key", "=", "arr[i]">>, <<"while", "j", ">=", "0">> >>],
       [name |-> "merge",
        patterns |-> << <<"merge">>, <<"Merge Sort">>, <<"mergeSort">>,
                        <<"merge$$", "left", "right$$">> >>],
       [name |-> "quick",
        patterns |-> << <<"quick">>, <<"Quick Sort">>, <<"quickSort">>,
                        <<"partition">>, <<"pivot">> >>],
       [name |-> "heap",
        patterns |-> << <<"heap">>, <<"Heap Sort">>, <<"heapify">>,
                        <<"buildHeap">> >>],
       [name |-> "linear_search",
        patterns |-> << <<"linear", "search">>, <<"Linear Search">>,
                        <<"for", "arr[i]", "==", "target">>,
                        <<"linearSearch">> >>],
       [name |-> "binary_search",
        patterns |-> << <<"binary", "search">>, <<"Binary Search">>,
                        <<"while", "left", "<=", "right">>,
                        <<"mid", "=", "left", "right">>, <<"binarySearch">> >>],
       [name |-> "bfs",
        patterns |-> << <<"BFS">>, <<"breadth", "first">>,
                        <<"Breadth-First Search">>, <<"queue<int>">>,
                        <<"q.push">>, <<"q.front">> >>],
       [name |-> "dfs",
        patterns |-> << <<"DFS">>, <<"depth", "first">>,
                        <<"Depth-First Search">>, <<"DFSUtil">>,
                        <<"visited[vertex]">> >>],
       [name |-> "fibonacci",
        patterns |-> << <<"fibonacci">>, <<"Fibonacci">>, <<"fib$$n-1$$">>,
                        <<"fib$$n-2$$">> >>] >>

RECURSIVE MatchFrom(_, _, _)
\* the pieces match, in order, in the words from position `from` on: some
\* word holds the first one or more pieces and the later words match the rest
MatchFrom(pieces, words, from) ==
    \/ pieces = <<>>
    \/ \E k \in from..Len(words), n \in 1..Len(pieces) :
          /\ SubSeq(pieces, 1, n) \in Holds(words[k])
          /\ MatchFrom(SubSeq(pieces, n + 1, Len(pieces)), words, k + 1)

\* new RegExp(pattern, "i").test(code)
RegExpTest(pattern, text) == MatchFrom(pattern, text.words, 1)

RECURSIVE detectFromLast(_, _, _)
\* a scan of the rules from the last one back to the first
detectFromLast(text, a, p) ==
    IF a < 1 THEN "unknown"
    ELSE IF p > Len(algorithms[a].patterns) THEN detectFromLast(text, a - 1, 1)
    ELSE IF RegExpTest(algorithms[a].patterns[p], text) THEN algorithms[a].name
    ELSE detectFromLast(text, a, p + 1)

\* detectAlgorithm with its rules tried in the opposite order
detectAlgorithmLastRule(text) == detectFromLast(text, Len(algorithms), 1)

RECURSIVE detectFrom(_, _, _)
\* detectAlgorithm: the two nested loops from rule a, pattern p on
detectFrom(text, a, p) ==
    IF a > Len(algorithms) THEN "unknown"
    ELSE IF p > Len(algorithms[a].patterns) THEN detectFrom(text, a + 1, 1)
    ELSE IF RegExpTest(algorithms[a].patterns[p], text) THEN algorithms[a].name
    ELSE detectFrom(text, a, p + 1)

\* detectAlgorithm(code)
detectAlgorithm(text) == detectFrom(text, 1, 1)

\* A brace group `{...}` of a text is [form, items]: what stands before the
\* brace, and the pieces of its content between commas (content.split(",")).
\* An empty content `{}` has the one item "".
Forms == {"vector", "brackets", "assign", "bare"}

\* the items explored: "7", " 8" (parseInt trims the blank), "x" and ""
Items == {Item(FALSE, <<7>>, ""), Item(TRUE, <<8>>, ""),
          Item(FALSE, <<>>, "x"), NoItem}

\* Number.parseInt(v.trim()): the leading number, or NaN when there is none
ParseInt(item) ==
    IF item.number = <<>> THEN [isNaN |-> TRUE, value |-> 0]
    ELSE [isNaN |-> FALSE, value |-> item.number[1]]

\* extractArrayData: const arrayPatterns = [...], each by the forms of group
\* it matches: `vector<int> arr = {...}`, `int arr[] = {...}`, `arr = {...}`,
\* `{...}`
arrayPatterns ==
    << {"vector"}, {"brackets"}, {"vector", "assign"}, Forms >>

\* pattern.exec(code): the position of the first group the pattern matches, 0
\* for null; `[^}]+` needs a content that is not empty
exec(pattern, text) ==
    LET matching == {g \in 1..Len(text.groups) :
                        /\ text.groups[g].form \in pattern
                        /\ text.groups[g].items # <<NoItem>>}
    IN  IF matching = {} THEN 0
        ELSE CHOOSE g \in matching : \A h \in matching : g <= h

\* items.map(parse).filter((v) => keep the numbers): the values of the items
\* that parse to a number
Numbers(items) ==
    LET parsed == [k \in 1..Len(items) |-> ParseInt(items[k])]
        IsNumber(v) == ~v.isNaN
        kept == SelectSeq(parsed, IsNumber)
    IN  [k \in 1..Len(kept) |-> kept[k].value]

RECURSIVE extractFromNoCheck(_, _)
\* extractArrayData without its test `values.length > 0`
extractFromNoCheck(text, k) ==
    IF k > Len(arrayPatterns) THEN NullArray
    ELSE LET match == exec(arrayPatterns[k], text)
         IN  IF match # 0
             THEN SomeArray(Numbers(text.groups[match].items))
             ELSE extractFromNoCheck(text, k + 1)

RECURSIVE extractFrom(_, _)
\* extractArrayData: the loop over arrayPatterns from the k-th pattern on
extractFrom(text, k) ==
    IF k > Len(arrayPatterns) THEN NullArray
    ELSE LET match == exec(arrayPatterns[k], text)
             values == Numbers(text.groups[match].items)
         IN  IF match # 0 /\ Len(values) > 0
             THEN SomeArray(values)
             ELSE extractFrom(text, k + 1)

\* an extractArrayData that returns the values of the first match even when
\* there are none
extractArrayDataNoCheck(text) == extractFromNoCheck(text, 1)

\* extractArrayData(code)
extractArrayData(text) == extractFrom(text, 1)

\* (code.match(/for\s*\(/g) || []).length
LoopOpenings(text) ==
    Cardinality({k \in 1..Len(text.words) : text.words[k] = "for ("})

\* code.includes(s)
includes(text, s) == \E k \in 1..Len(text.words) : s \in Includes(text.words[k])

\* detectLoops(code): no explored word opens a while or a do loop
detectLoops(text) == LoopOpenings(text) > 0

\* an estimate that looks for "log" and "binary" before it counts the loops
estimateComplexityLogFirst(text) ==
    IF includes(text, "log") \/ includes(text, "binary") THEN "O(log n)"
    ELSE IF LoopOpenings(text) >= 3 THEN "O(n^3)"
    ELSE IF LoopOpenings(text) >= 2 THEN "O(n^2)"
    ELSE IF LoopOpenings(text) >= 1 THEN "O(n)"
    ELSE "O(1)"

\* estimateComplexity(code); the exponents are written ^2 and ^3 here
estimateComplexity(text) ==
    LET nestedLoops == LoopOpenings(text)
    IN  IF nestedLoops >= 3 THEN "O(n^3)"
        ELSE IF nestedLoops >= 2 THEN "O(n^2)"
        ELSE IF nestedLoops >= 1 THEN "O(n)"
        ELSE IF includes(text, "log") \/ includes(text, "binary") THEN "O(log n)"
        ELSE "O(1)"

\* validateCode(code): every group has both its braces, "for (" is the only
\* word with a parenthesis, and no explored word holds "main" or "#include"
validateCode(text) ==
    (IF LoopOpenings(text) # 0 THEN <<"Mismatched parentheses">> ELSE <<>>)
    \o <<"No main function found", "No include statements found">>

\* parseCode(code)
parseCode(text) ==
    [algorithm |-> detectAlgorithm(text),
     arrayData |-> extractArrayData(text),
     hasLoops |-> detectLoops(text),
     complexity |-> estimateComplexity(text),
     errors |-> validateCode(text)]

\* the source texts explored by words: no brace groups
WordLists == UNION {[1..n -> Words] : n \in 0..MaxWords}

\* the contents explored: 1..MaxItems items
ItemLists == UNION {[1..n -> Items] : n \in 1..MaxItems}

\* the brace-group lists explored
GroupLists ==
    UNION {[1..n -> [form : Forms, items : ItemLists]] : n \in 0..MaxGroups}

\* simulateExecution: const analysis = codeAnalyzer.parseCode(code)
ParseCode ==
    /\ analysis' = parseCode(code)
    /\ UNCHANGED <<code, arrayValues, customArray>>
    /\ UNCHANGED <<engineVars, timerVars, runVars, histVars, inputVars, callVars,
                   scriptVars>>

\* the analyzer applied to a text drawn from the word lists
AnalyzerInit ==
    /\ EngineInit
    /\ NoProducerCall
    /\ ScriptPageInit
    /\ array = <<>> /\ target = 0 /\ graph = <<>> /\ start = 0
    /\ codeLines = NoCodeLines
    /\ code \in {[words |-> w, groups |-> <<>>] : w \in WordLists}
    /\ analysis = NoAnalysis
    /\ arrayValues = <<NoItem>>
    /\ customArray = DefaultArray

AnalyzerNext == ParseCode

AnalyzerSpec == AnalyzerInit /\ [][AnalyzerNext]_vars

\* arr.join(", "): one item per element, all but the first after a blank
Join(arr) ==
    IF arr = <<>> THEN <<NoItem>>
    ELSE [k \in 1..Len(arr) |-> Item(k > 1, <<arr[k]>>, "")]

\* the positions of the arraySize slider explored
Sizes == 0..MaxItems

\* the outcomes of Math.floor(Math.random() * 100) + 1 explored
RandomValues == {7, 8}

\* generateRandomArray(size): the arrays it can build
RandomArrays(size) == [1..size -> RandomValues]

RECURSIVE Swapped(_, _, _)
\* generatePresetArray, case "nearly": the arrays of length `size` that
\* `count` swaps of two different random positions can leave
Swapped(arrs, size, count) ==
    IF count = 0 THEN arrs
    ELSE Swapped({Swap(arr, idx[1], idx[2]) :
                      arr \in arrs,
                      idx \in {p \in (0..(size - 1)) \X (0..(size - 1)) :
                                  p[1] # p[2]}},
                 size, count - 1)

\* the presets of the dialog
Presets == {"random", "sorted", "reverse", "nearly"}

\* generatePresetArray(preset) with the slider at `size`: the arrays it can
\* build
PresetArrays(preset, size) ==
    LET sorted == [i \in 1..size |-> i * 10]
    IN  CASE preset = "random" -> RandomArrays(size)
          [] preset = "sorted" -> {sorted}
          [] preset = "reverse" -> {[i \in 1..size |-> (size - i + 1) * 10]}
          [] preset = "nearly" -> Swapped({sorted}, size, size \div 3)

\* what the dialog's handlers leave alone
DialogFrame ==
    UNCHANGED <<engineVars, timerVars, runVars, histVars, inputVars, callVars,
                code, analysis, scriptVars>>

\* arraySize input listener: generateRandomArray(Number.parseInt(e.target.value))
ArraySizeInput ==
    /\ \E size \in Sizes : \E arr \in RandomArrays(size) :
          arrayValues' = Join(arr)
    /\ UNCHANGED customArray
    /\ DialogFrame

\* preset button click listener: generatePresetArray(preset), which reads the
\* slider's position
PresetBtn ==
    /\ \E preset \in Presets, size \in Sizes :
          \E arr \in PresetArrays(preset, size) : arrayValues' = Join(arr)
    /\ UNCHANGED customArray
    /\ DialogFrame

\* the user types into the array field
TypeArrayValues ==
    /\ \E items \in ItemLists : arrayValues' = items
    /\ UNCHANGED customArray
    /\ DialogFrame

\* an applyCustomization that takes whatever the field parses to
applyCustomizationUnchecked ==
    /\ customArray' = Numbers(arrayValues)
    /\ UNCHANGED arrayValues

\* applyCustomization()
applyCustomization ==
    LET values == Numbers(arrayValues)
    IN  /\ customArray' = IF Len(values) > 0 THEN values ELSE customArray
        /\ UNCHANGED arrayValues

\* applyCustomize click listener
ApplyCustomizeBtn ==
    /\ applyCustomization
    /\ DialogFrame

\* simulateExecution, execution phase:
\* const testArray = analysis.arrayData || [...customArray]; an array, even an
\* empty one, is truthy
TakeTestArray ==
    /\ analysis # NoAnalysis
    /\ array' = IF analysis.arrayData.null THEN customArray
                ELSE analysis.arrayData.values
    /\ UNCHANGED <<target, graph, start, codeLines>>
    /\ UNCHANGED <<engineVars, timerVars, runVars, histVars, callVars, pageVars,
                   scriptVars>>

\* a run on a text drawn from the brace-group lists, with the dialog at hand
CustomizeInit ==
    /\ EngineInit
    /\ NoProducerCall
    /\ ScriptPageInit
    /\ array = <<>> /\ target = 0 /\ graph = <<>> /\ start = 0
    /\ codeLines = NoCodeLines
    /\ code \in {[words |-> <<>>, groups |-> g] : g \in GroupLists}
    /\ analysis = NoAnalysis
    /\ arrayValues = <<NoItem>>
    /\ customArray = DefaultArray

CustomizeNext ==
    \/ ParseCode
    \/ TakeTestArray
    \/ ArraySizeInput
    \/ PresetBtn
    \/ TypeArrayValues
    \/ ApplyCustomizeBtn

CustomizeSpec == CustomizeInit /\ [][CustomizeNext]_vars

----------------------------------------------------------------------------
(***************************************************************************)
(* The page script of script.js: a run is a chain of timers, runCode       *)
(* -1000ms-> simulateExecution -1500ms-> compilation done -500ms->         *)
(* execution -1000ms-> completion, and a text holding "Bubble Sort" starts *)
(* an 800 ms interval in the execution phase.  Nothing cancels a timer     *)
(* except the interval's own clearInterval.  Time passes in steps of       *)
(* TimeUnit; timers due at the same instant fire in the order they were    *)
(* created.  isRunning is this script's `let isRunning`.                   *)
(***************************************************************************)
\* runCode: setTimeout(() => { simulateExecution(code) }, 1000)
RunDelay == 1000

\* simulateExecution: the outer setTimeout(..., 1500)
CompileDelay == 1500

\* simulateExecution: the middle setTimeout(..., 500)
ExecuteDelay == 500

\* simulateExecution: the inner setTimeout(..., 1000)
CompleteDelay == 1000

\* simulateBubbleSort: setInterval(..., 800)
StepPeriod == 800

RECURSIVE GCD(_, _)
GCD(a, b) == IF b = 0 THEN a ELSE GCD(b, a % b)

\* the coarsest step of time at which every delay is a whole number of steps
TimeUnit ==
    GCD(GCD(RunDelay, CompileDelay),
        GCD(GCD(ExecuteDelay, CompleteDelay), StepPeriod))

\* simulateBubbleSort: const steps = [...]
steps ==
    <<"Original array: 64 34 25 12 22 11 90",
      "Step 1: 34 64 25 12 22 11 90",
      "Step 2: 34 25 64 12 22 11 90",
      "Step 3: 34 25 12 64 22 11 90",
      "Step 4: 34 25 12 22 11 64 90",
      "Step 5: 34 25 12 22 11 64 90",
      "Step 6: 25 34 12 22 11 64 90",
      "Step 7: 25 12 34 22 11 64 90",
      "Step 8: 25 12 22 34 11 64 90",
      "Step 9: 25 12 22 11 34 64 90",
      "Sorted array: 11 12 22 25 34 64 90">>

\* the editor texts told apart: only white space, a text that holds
\* "Bubble Sort", any other text
Texts == {"blank", "Bubble Sort", "other"}

\* a line of the output area; run: the run whose timer appended it, 0 for a
\* line a button handler wrote
Line(run, text) == [run |-> run, text |-> text]

\* addOutput(text, color)
addOutput(area, run, text) == Append(area, Line(run, text))

\* a pending timer: kind names its callback, due is the time left, run and
\* text are the run that scheduled it and the `code` its closure holds, and
\* stepIndex is the interval's `let stepIndex`
Timer(kind, due, run, text, stepIndex) ==
    [kind |-> kind, due |-> due, run |-> run, text |-> text,
     stepIndex |-> stepIndex]

\* the timers that are due now
Due == {k \in 1..Len(timers) : timers[k].due = 0}

\* the timer the event loop runs next: the due one created first
NextTimer == CHOOSE k \in Due : \A h \in Due : k <= h

\* the timer run next has the callback `kind`
Fires(kind) == Due # {} /\ timers[NextTimer].kind = kind

\* the timer list once the timer at position k has fired
Remove(q, k) == SubSeq(q, 1, k - 1) \o SubSeq(q, k + 1, Len(q))

\* what the handlers and timers of script.js leave alone
ScriptFrame ==
    UNCHANGED <<engineVars, timerVars, pipeline, lastExec, histVars, inputVars,
                callVars, pageVars>>

\* stopExecution() of script.js
script_stopExecution ==
    /\ isRunning' = FALSE
    /\ runBtnText' = RunCaption

\* runCode() of script.js on the editor text `text`
script_runCode(text) ==
    IF text = "blank"
    THEN UNCHANGED <<isRunning, runBtnText, timers, started>>
    ELSE /\ isRunning' = TRUE
         /\ runBtnText' = StopCaption
         /\ started' = started + 1
         /\ timers' = Append(timers,
                         Timer("simulateExecution", RunDelay, started + 1, text, 0))

\* runBtn click listener of script.js: stops when a run is in progress, runs
\* the editor's text otherwise
ScriptRunBtn ==
    /\ \E text \in Texts :
          IF isRunning
          THEN /\ script_stopExecution
               /\ stoppedRuns' = stoppedRuns \cup {started}
               /\ UNCHANGED <<timers, started>>
          ELSE /\ text # "blank" => started < MaxRuns
               /\ script_runCode(text)
               /\ UNCHANGED stoppedRuns
    /\ UNCHANGED <<outputArea, currentStep>>
    /\ ScriptFrame

\* clearBtn click listener of script.js
ScriptClearBtn ==
    /\ outputArea' = <<Line(0, "Output cleared. Ready for next execution.")>>
    /\ UNCHANGED <<isRunning, runBtnText, currentStep, timers, started,
                   stoppedRuns>>
    /\ ScriptFrame

\* resetBtn click listener of script.js: resetEditor()
ScriptResetBtn ==
    /\ outputArea' = <<Line(0, "Editor reset. Ready for new code.")>>
    /\ currentStep' = 0
    /\ UNCHANGED <<isRunning, runBtnText, timers, started, stoppedRuns>>
    /\ ScriptFrame

\* stepBtn click listener of script.js: stepThroughCode()
ScriptStepBtn ==
    /\ currentStep < MaxSteps
    /\ currentStep' = currentStep + 1
    /\ outputArea' = addOutput(outputArea, 0, "Step %: Executing line %...")
    /\ UNCHANGED <<isRunning, runBtnText, timers, started, stoppedRuns>>
    /\ ScriptFrame

\* time passes while no timer is due
Tick ==
    /\ timers # <<>>
    /\ Due = {}
    /\ timers' = [k \in 1..Len(timers) |->
                     [timers[k] EXCEPT !.due = @ - TimeUnit]]
    /\ UNCHANGED <<isRunning, runBtnText, outputArea, currentStep, started,
                   stoppedRuns>>
    /\ ScriptFrame

\* the timer of runCode fires: simulateExecution(code) up to its setTimeout
SimulateExecutionTimer ==
    /\ Fires("simulateExecution")
    /\ LET t == timers[NextTimer]
       IN  /\ outputArea' = addOutput(<<>>, t.run, "Compiling C++ code...")
           /\ timers' = Append(Remove(timers, NextTimer),
                           Timer("compiled", CompileDelay, t.run, t.text, 0))
    /\ UNCHANGED <<isRunning, runBtnText, currentStep, started, stoppedRuns>>
    /\ ScriptFrame

\* the 1500 ms timer of simulateExecution fires
CompiledTimer ==
    /\ Fires("compiled")
    /\ LET t == timers[NextTimer]
       IN  /\ outputArea' = addOutput(addOutput(outputArea, t.run,
                                          "Compilation successful!"),
                                      t.run, "Starting execution...")
           /\ timers' = Append(Remove(timers, NextTimer),
                           Timer("execute", ExecuteDelay, t.run, t.text, 0))
    /\ UNCHANGED <<isRunning, runBtnText, currentStep, started, stoppedRuns>>
    /\ ScriptFrame

\* the 500 ms timer of simulateExecution fires: simulateBubbleSort() starts
\* the interval when the text holds "Bubble Sort", two lines are printed
\* otherwise; then the completion timer is set
ExecuteTimer ==
    /\ Fires("execute")
    /\ LET t == timers[NextTimer]
           rest == Remove(timers, NextTimer)
           completion == Timer("completed", CompleteDelay, t.run, t.text, 0)
       IN  IF t.text = "Bubble Sort"
           THEN /\ timers' = rest \o <<Timer("step", StepPeriod, t.run, t.text, 0),
                                       completion>>
                /\ UNCHANGED outputArea
           ELSE /\ timers' = Append(rest, completion)
                /\ outputArea' = addOutput(addOutput(outputArea, t.run,
                                               "Program output:"),
                                           t.run, "Hello, Algorithm Visualizer!")
    /\ UNCHANGED <<isRunning, runBtnText, currentStep, started, stoppedRuns>>
    /\ ScriptFrame

\* the 1000 ms timer of simulateExecution fires: completion
CompletedTimer ==
    /\ Fires("completed")
    /\ outputArea' = addOutput(outputArea, timers[NextTimer].run,
                               "Execution completed successfully!")
    /\ script_stopExecution
    /\ timers' = Remove(timers, NextTimer)
    /\ UNCHANGED <<currentStep, started, stoppedRuns>>
    /\ ScriptFrame

\* the interval of simulateBubbleSort fires
StepInterval ==
    /\ Fires("step")
    /\ LET t == timers[NextTimer]
       IN  IF t.stepIndex < Len(steps) /\ isRunning
           THEN /\ outputArea' = addOutput(outputArea, t.run,
                                           steps[t.stepIndex + 1])
                /\ timers' = [timers EXCEPT ![NextTimer] =
                                 Timer("step", StepPeriod, t.run, t.text,
                                       t.stepIndex + 1)]
           ELSE \* clearInterval(stepInterval)
                /\ timers' = Remove(timers, NextTimer)
                /\ UNCHANGED outputArea
    /\ UNCHANGED <<isRunning, runBtnText, currentStep, started, stoppedRuns>>
    /\ ScriptFrame

\* a timer of some run fires
TimerFires ==
    \/ SimulateExecutionTimer
    \/ CompiledTimer
    \/ ExecuteTimer
    \/ CompletedTimer
    \/ StepInterval

ScriptInit ==
    /\ EngineInit
    /\ PageInit
    /\ NoProducerCall
    /\ array = <<>> /\ target = 0 /\ graph = <<>> /\ start = 0
    /\ codeLines = NoCodeLines
    /\ ScriptPageInit

ScriptNext ==
    \/ ScriptRunBtn
    \/ ScriptClearBtn
    \/ ScriptResetBtn
    \/ ScriptStepBtn
    \/ Tick
    \/ SimulateExecutionTimer
    \/ CompiledTimer
    \/ ExecuteTimer
    \/ CompletedTimer
    \/ StepInterval

ScriptSpec == ScriptInit /\ [][ScriptNext]_vars

----------------------------------------------------------------------------
(***************************************************************************)
(* Properties.                                                             *)
(***************************************************************************)
\* status = idle: neither playing nor paused
Idle == ~isPlaying /\ ~isPaused

Min(a, b) == IF a < b THEN a ELSE b

\* C1: whenever a non-empty sequence is loaded, 0 <= currentFrame < totalFrames
\* (and totalFrames is the length of the loaded sequence), whatever handlers
\* and callbacks, stale ones included, have run.
C1_PositionInRange ==
    /\ totalFrames = Len(frames)
    /\ Len(frames) > 0 => (0 <= currentFrame /\ currentFrame < totalFrames)

\* C1 witness: a one-frame sequence has just been loaded while advancement
\* callbacks scheduled for the previous sequence are still outstanding.
C1_Witness ==
    /\ op = "setFrames"
    /\ totalFrames = 1
    /\ BagCardinality(timeouts) > 0

\* C2: after stop() is called while playing, and until the next engine call,
\* the position is 0, the status is idle and the canvas stays cleared.
C2_StopCancelsAdvancement ==
    op = "stopPlaying" => (currentFrame = 0 /\ Idle /\ canvas = Blank)

\* C3: after pause() is called while playing, and until the next engine call,
\* the status stays paused, the position does not change and nothing is rendered.
C3_PauseHaltsAdvancement ==
    [][(op = "pausePlaying" /\ op' = "pausePlaying")
         => (isPaused' /\ ~isPlaying' /\ currentFrame' = currentFrame
             /\ canvas' = canvas)]_vars

\* C4: at most one autonomous-advancement callback is outstanding at a time.
C4_OneCallbackOutstanding == Pending <= 1

\* C5: after setFrames() returns, and until the next engine call, the position
\* is 0 and the status is idle.
C5_LoadResets ==
    op = "setFrames" => (currentFrame = 0 /\ Idle)

\* C6: after the execution phase of a run the engine holds the sequence of that
\* run: when the run took the default case, which builds no frames, the engine
\* holds no frames of an earlier run.
C6_RunReplacesSequence ==
    lastExec = "fallback" => frames = <<>>

\* C7: after the execution phase of a run whose algorithm id has no producer,
\* the engine holds a sequence of exactly one frame.
C7_FallbackSingleFrame ==
    lastExec = "fallback" => Len(frames) = 1

C10_IdleAtZero == Idle => currentFrame = 0

\* C10 amended: status idle with a cleared canvas (nothing rendered since
\* construction or the last stop) implies position 0.
C10_IdleClearedAtZero ==
    (Idle /\ canvas = Blank) => currentFrame = 0

\* C10 witness: a longer sequence is loaded, the engine is idle and the canvas
\* was cleared by a stop() that interrupted playback.
C10_Witness ==
    /\ op = "stopPlaying"
    /\ Idle
    /\ canvas = Blank
    /\ totalFrames > 1

\* C11: the status changes only along idle -> playing, playing -> paused,
\* paused -> playing, playing -> idle and paused -> idle: a step taken in
\* status idle ends in status idle or playing, never in paused.
C11_StatusTransitions ==
    [][Idle => (Idle' \/ (isPlaying' /\ ~isPaused'))]_vars

\* C12: goToFrame(frameIndex) on a loaded sequence of length L sets the position
\* to frameIndex clamped into [0, L-1], for frameIndex < 0 and >= L too, and
\* renders the frame at that position.
C12_SeekClamps ==
    [][\A frameIndex \in -1..MaxFrames :
          (Len(frames) > 0 /\ TimelineSlider(frameIndex)) =>
              /\ currentFrame' =
                     IF frameIndex < 0 THEN 0
                     ELSE Min(frameIndex, Len(frames) - 1)
              /\ canvas' = FrameAt(currentFrame')]_vars

\* C13: in every status stepForward moves the position by +1 and renders the
\* frame there, unless the position is the last index; stepBackward moves it by
\* -1 and renders, unless the position is 0; at those ends the position is
\* unchanged and nothing is rendered.  Both leave status, speed and the loaded
\* sequence unchanged.
C13_StepMovesByOne ==
    [][/\ (Len(frames) > 0 /\ (StepForwardBtn \/ StepBtn)) =>
            /\ IF currentFrame = Len(frames) - 1
               THEN currentFrame' = currentFrame /\ canvas' = canvas
               ELSE /\ currentFrame' = currentFrame + 1
                    /\ canvas' = FrameAt(currentFrame + 1)
            /\ UNCHANGED <<isPlaying, isPaused, animationSpeed, frames,
                           totalFrames>>
       /\ (Len(frames) > 0 /\ StepBackBtn) =>
            /\ IF currentFrame = 0
               THEN currentFrame' = currentFrame /\ canvas' = canvas
               ELSE /\ currentFrame' = currentFrame - 1
                    /\ canvas' = FrameAt(currentFrame - 1)
            /\ UNCHANGED <<isPlaying, isPaused, animationSpeed, frames,
                           totalFrames>>]_vars

\* C13 witness: while playing, with an advancement callback outstanding,
\* stepForward has moved the position onto the last index of a longest
\* sequence and rendered it.
C13_Witness ==
    /\ op = "stepForward"
    /\ isPlaying
    /\ Pending > 0
    /\ totalFrames = MaxFrames
    /\ currentFrame = totalFrames - 1
    /\ canvas = FrameAt(currentFrame)

\* C14: the position last shown on the timeline (no progress listener is ever
\* attached: onFrameUpdate stays null) equals the engine's current position
\* after every operation.
C14_TimelineShowsPosition == timelineValue = currentFrame

\* C15: with no sequence loaded, play (button or space key), stepForward,
\* stepBackward and goToFrame with any index change nothing in the engine:
\* the position stays 0, the status is kept (idle stays idle), no callback is
\* scheduled and the canvas stays cleared.
C15_EmptyNoOp ==
    [][(/\ Len(frames) = 0
        /\ \/ PlayBtn
           \/ (KeySpace /\ ~isPlaying)
           \/ StepForwardBtn
           \/ StepBackBtn
           \/ \E frameIndex \in -1..MaxFrames : TimelineSlider(frameIndex))
          => /\ UNCHANGED <<engineVars, timerVars>>
             /\ currentFrame' = 0
             /\ canvas' = Blank
             /\ Pending' = 0
             /\ Idle => Idle']_vars

\* C15 witness: stepForward has been called on the engine with nothing loaded.
C15_Witness ==
    /\ Len(frames) = 0
    /\ op = "stepForward"
    /\ Idle
    /\ currentFrame = 0
    /\ canvas = Blank
    /\ Pending = 0

\* C16: setSpeed changes the speed and nothing else of the engine, the delays
\* already scheduled included; every delay scheduled by a later step is
\* 1000 / animationSpeed for the speed in force at that step.
C16_SpeedAppliesToNextDelay ==
    [][/\ \A speed \in Speeds :
            SpeedSlider(speed) =>
                /\ animationSpeed' = speed
                /\ UNCHANGED <<isPlaying, isPaused, currentFrame, totalFrames,
                               frames, canvas, timeouts, rafLatest, rafOrphans>>
       /\ \A d \in {1000 \div speed : speed \in Speeds} :
            CopiesIn(d, timeouts') > CopiesIn(d, timeouts)
                => d = 1000 \div animationSpeed]_vars

\* C16 witness: while playing, a delay scheduled under the previous speed is
\* still pending after setSpeed has changed the speed.
C16_Witness ==
    /\ isPlaying
    /\ \E d \in BagToSet(timeouts) : d # 1000 \div animationSpeed

\* the sorting cases of the switch in simulateExecution
SortingIds == {"bubble", "selection", "insertion", "merge", "quick"}

\* q is in ascending order
IsAscending(q) == \A a, b \in 1..Len(q) : a < b => q[a] <= q[b]

\* the frames of frameList that name a compared index
ComparisonFrames(frameList) ==
    {k \in 1..Len(frameList) : frameList[k].comparisons # <<>>}

\* C17: for every non-empty input array, duplicates allowed, the last frame each
\* of the five sorting producers returns has `sorted` holding exactly the
\* indices 0..n-1 and an `array` of the input's length in ascending order.
C17_FinalFrameSorted ==
    producer \in SortingIds =>
        LET last == result[Len(result)]
        IN  /\ Range(last.sorted) = 0..(Len(array) - 1)
            /\ Len(last.array) = Len(array)
            /\ IsAscending(last.array)

\* C17 witness: quick sort has returned for a longest input that holds a
\* duplicate and is not in ascending order.
C17_Witness ==
    /\ producer = "quick"
    /\ Len(array) = MaxLen
    /\ ~IsAscending(array)
    /\ \E a, b \in 1..Len(array) : a < b /\ array[a] = array[b]

C19_FramePerComparison ==
    producer \in SortingIds =>
        Cardinality(ComparisonFrames(result)) = evaluated

\* C20: bubble sort on [3,1,2] returns nine frames: initial; compare(0,1);
\* swap(0,1) showing [1,3,2]; compare(1,2); swap(1,2) showing [1,2,3]; settled
\* {2}; compare(0,1); settled {1,2}; final frame with settled {0,1,2}.
C20_BubbleScenario ==
    (producer = "bubble" /\ array = <<3, 1, 2>>) =>
        /\ Len(result) = 9
        /\ result[1].array = <<3, 1, 2>>
        /\ result[1].comparisons = <<>> /\ result[1].highlights = <<>>
        /\ result[2].comparisons = <<0, 1>>
        /\ result[3].highlights = <<0, 1>> /\ result[3].array = <<1, 3, 2>>
        /\ result[4].comparisons = <<1, 2>>
        /\ result[5].highlights = <<1, 2>> /\ result[5].array = <<1, 2, 3>>
        /\ Range(result[6].sorted) = {2}
        /\ result[7].comparisons = <<0, 1>>
        /\ Range(result[8].sorted) = {1, 2}
        /\ Range(result[9].sorted) = {0, 1, 2}

\* the binary-search frames that evaluate a midpoint, in the order produced,
\* each as <<left, right, mid>>
Evaluations(frameList) ==
    LET IsEvaluation(f) == f.mid # -1 /\ ~f.completed
        probes == SelectSeq(frameList, IsEvaluation)
    IN  [k \in 1..Len(probes) |-> <<probes[k].left, probes[k].right, probes[k].mid>>]

\* the default binary-search run: 22 in the default array, which the caller
\* hands over sorted
DefaultBinarySearch ==
    /\ producer = "binary_search"
    /\ array = DefaultArray
    /\ target = DefaultTarget

\* C21 as stated: binary search for 22 in [11,12,22,25,34,64,90] returns three
\* frames, the first with left=0, right=6, mid=3, the second with left=0,
\* right=2, mid=1, the third with left=2, right=2, mid=2 and found=true.
C21_ThreeFrames ==
    DefaultBinarySearch =>
        /\ Len(result) = 3
        /\ <<result[1].left, result[1].right, result[1].mid>> = <<0, 6, 3>>
        /\ <<result[2].left, result[2].right, result[2].mid>> = <<0, 2, 1>>
        /\ <<result[3].left, result[3].right, result[3].mid>> = <<2, 2, 2>>
        /\ result[3].found

\* C21 amended: binary search for 22 in [11,12,22,25,34,64,90] evaluates three
\* midpoints, with (left, right, mid) = (0,6,3), (0,2,1), (2,2,2) in that
\* order; a bound-narrowing frame (mid = -1) follows each of the first two,
\* and the third is followed by the terminal frame, which has left=2, right=2,
\* mid=2, found=true.
C21_ThreeEvaluations ==
    DefaultBinarySearch =>
        /\ \A k \in 1..Len(result) :
               result[k].array = <<11, 12, 22, 25, 34, 64, 90>>
        /\ Evaluations(result) = << <<0, 6, 3>>, <<0, 2, 1>>, <<2, 2, 2>> >>
        /\ Len(result) = 6
        /\ <<result[2].left, result[2].right, result[2].mid>> = <<0, 2, -1>>
        /\ <<result[4].left, result[4].right, result[4].mid>> = <<2, 2, -1>>
        /\ <<result[6].left, result[6].right, result[6].mid>> = <<2, 2, 2>>
        /\ result[6].found /\ result[6].completed
        /\ \A k \in 1..5 : ~result[k].found /\ ~result[k].completed

\* C21 witness: the default binary-search run has returned.
C21_Witness ==
    /\ DefaultBinarySearch
    /\ Len(result) > 0
    /\ result[1].array # array

RECURSIVE Within(_, _, _)
\* the vertices of gr at most k edges away from vertex `from`
Within(gr, from, k) ==
    IF k = 0 THEN {from}
    ELSE LET near == Within(gr, from, k - 1)
         IN  near \cup UNION {Range(At(gr, v)) : v \in near}

\* the number of edges on a shortest path from `from` to a reachable vertex v
Distance(gr, from, v) ==
    CHOOSE k \in 0..Len(gr) :
        /\ v \in Within(gr, from, k)
        /\ k > 0 => v \notin Within(gr, from, k - 1)

\* the position of the first occurrence of v in q
FirstAt(q, v) == CHOOSE k \in 1..Len(q) : q[k] = v /\ \A h \in 1..(k - 1) : q[h] # v

\* order lists vertices in breadth-first discovery order with neighbours taken
\* in listed order: after the first, each vertex is discovered by the earliest
\* listed vertex adjacent to it, vertices discovered by an earlier vertex come
\* first, and vertices discovered by the same vertex come in the order of its
\* neighbour list
InListedOrder(gr, order) ==
    LET Discoverer(b) ==
            CHOOSE a \in 1..Len(order) :
                /\ order[b] \in Range(At(gr, order[a]))
                /\ \A h \in 1..(a - 1) : order[b] \notin Range(At(gr, order[h]))
    IN  \A a, b \in 2..Len(order) :
            a < b =>
                \/ Discoverer(a) < Discoverer(b)
                \/ /\ Discoverer(a) = Discoverer(b)
                   /\ FirstAt(At(gr, order[Discoverer(a)]), order[a])
                        < FirstAt(At(gr, order[Discoverer(a)]), order[b])

\* C22: the last frame of the breadth-first producer has a traversalOrder that
\* starts at the start vertex, lists exactly the vertices reachable from it,
\* each once, in non-decreasing distance from the start and with neighbours
\* taken in listed order; for the default graph from vertex 0 it is
\* [0,1,2,3,4,5].
C22_BreadthFirstOrder ==
    producer = "bfs" =>
        LET order == result[Len(result)].traversalOrder
        IN  /\ Range(order) = Within(graph, start, Len(graph))
            /\ Len(order) = Cardinality(Range(order))
            /\ order[1] = start
            /\ \A a, b \in 1..Len(order) :
                   a < b => Distance(graph, start, order[a])
                              <= Distance(graph, start, order[b])
            /\ InListedOrder(graph, order)
            /\ (graph = DefaultGraph /\ start = 0) => order = <<0, 1, 2, 3, 4, 5>>

\* C22 witness: the breadth-first producer has returned for the default graph,
\* which has vertices at distance 0, 1 and 2 from the start.
C22_Witness ==
    /\ producer = "bfs"
    /\ graph = DefaultGraph
    /\ start = 0
    /\ Distance(graph, start, 5) = 2
    /\ Len(result[Len(result)].traversalOrder) = Len(graph)

\* C23: customArray always has at least one element, extractArrayData returns
\* null or an array with at least one element, and so the array the execution
\* phase hands to a sorting or searching producer is never empty, whatever the
\* source text and the edits of the customize dialog before it.
C23_NonEmptyTestArray ==
    [][/\ Len(customArray') > 0
       /\ analysis'.arrayData.null \/ Len(analysis'.arrayData.values) > 0
       /\ TakeTestArray => Len(array') > 0]_vars

\* C23 witness: a run on a text whose only brace group holds no number has
\* taken the custom array, which the dialog replaced before, while the array
\* field holds no number.
C23_Witness ==
    /\ Len(code.groups) > 0
    /\ analysis # NoAnalysis
    /\ analysis.arrayData.null
    /\ array = customArray
    /\ customArray # DefaultArray
    /\ Numbers(arrayValues) = <<>>

\* C24: for every producer and input, the frames returned with annotations
\* and the frames returned without them are equally many and agree, frame by
\* frame, on every field except codeLine.
C24_AnnotationsOnlyHint ==
    producer # "none" =>
        LET bare ==
                CASE producer = "bubble" ->
                        generateBubbleSortFrames(array, NoCodeLines).frames
                  [] producer = "selection" ->
                        generateSelectionSortFrames(array, NoCodeLines).frames
                  [] producer = "insertion" ->
                        generateInsertionSortFrames(array, NoCodeLines).frames
                  [] producer = "merge" ->
                        generateMergeSortFrames(array, NoCodeLines).frames
                  [] producer = "quick" ->
                        generateQuickSortFrames(array, NoCodeLines).frames
                  [] producer = "linear_search" ->
                        generateLinearSearchFrames(array, target, NoCodeLines).frames
                  [] producer = "binary_search" ->
                        generateBinarySearchFrames(sort(array), target,
                                                   NoCodeLines).frames
                  [] producer = "bfs" ->
                        generateBFSFrames(graph, start, NoCodeLines).frames
                  [] producer = "dfs" ->
                        generateDFSFrames(graph, start, NoCodeLines).frames
            Hidden(f) == [f EXCEPT !.codeLine = Null]
        IN  /\ Len(result) = Len(bare)
            /\ \A k \in 1..Len(result) : Hidden(result[k]) = Hidden(bare[k])

\* C24 witness: a sorting producer called with annotations has returned a
\* frame that carries a source line.
C24_Witness ==
    /\ producer = "selection"
    /\ codeLines = AnnotatedCodeLines
    /\ Len(array) = MaxLen
    /\ \E k \in 1..Len(result) : result[k].codeLine # Null

\* the fixed order of the rules of detectAlgorithm
RuleNames ==
    <<"bubble", "selection", "insertion", "merge", "quick", "heap",
      "linear_search", "binary_search", "bfs", "dfs", "fibonacci">>

\* the rules with at least one pattern that matches the text
Matching(text) ==
    {a \in 1..Len(algorithms) :
        \E p \in 1..Len(algorithms[a].patterns) :
            RegExpTest(algorithms[a].patterns[p], text)}

\* C25: detectAlgorithm returns the name of the first rule, in the order
\* bubble, selection, insertion, merge, quick, heap, linear_search,
\* binary_search, bfs, dfs, fibonacci, with a pattern that matches the text,
\* and "unknown" exactly when no rule has one.
C25_FirstRuleWins ==
    analysis # NoAnalysis =>
        /\ [a \in 1..Len(algorithms) |-> algorithms[a].name] = RuleNames
        /\ analysis.algorithm = "unknown" <=> Matching(code) = {}
        /\ Matching(code) # {} =>
              \E a \in Matching(code) :
                  /\ analysis.algorithm = RuleNames[a]
                  /\ \A b \in Matching(code) : a <= b

\* C25 witness: a text matched by the bubble rule and by two later rules has
\* been classified.
C25_Witness ==
    /\ analysis # NoAnalysis
    /\ Matching(code) = {1, 5, 8}
    /\ code.words[1] = "binarySearch"

\* C26: estimateComplexity returns O(log n) whenever the text includes "log"
\* or "binary", whatever the number of loop openings, and otherwise O(1),
\* O(n), O(n^2), O(n^3) for 0, 1, 2, 3 or more loop openings.
C26_LogOverridesLoops ==
    analysis # NoAnalysis =>
        analysis.complexity =
            IF includes(code, "log") \/ includes(code, "binary") THEN "O(log n)"
            ELSE IF LoopOpenings(code) = 0 THEN "O(1)"
            ELSE IF LoopOpenings(code) = 1 THEN "O(n)"
            ELSE IF LoopOpenings(code) = 2 THEN "O(n^2)"
            ELSE "O(n^3)"

\* the frames of a search that are not terminal, in the order produced
ScanFrames(frameList) ==
    LET IsScan(f) == ~f.completed
    IN  SelectSeq(frameList, IsScan)

\* the indices (0-based) of arr that hold v
Occurrences(arr, v) == {i \in 0..(Len(arr) - 1) : At(arr, i) = v}

\* C27: the scan frames of the linear-search producer have currentIndex 0, 1,
\* 2, ... and are followed by one terminal frame; when the target occurs, the
\* scan ends at its first occurrence and the terminal frame has found=true
\* with that index; when it does not, all n indices are scanned and the
\* terminal frame has found=false.
C27_LinearScan ==
    producer = "linear_search" =>
        LET scans == ScanFrames(result)
            last == result[Len(result)]
            occurs == Occurrences(array, target)
            first == CHOOSE i \in occurs : \A h \in occurs : i <= h
        IN  /\ result = Append(scans, last)
            /\ last.completed
            /\ \A k \in 1..Len(scans) :
                   /\ scans[k].currentIndex = k - 1
                   /\ scans[k].found <=> At(array, k - 1) = target
            /\ last.found <=> occurs # {}
            /\ occurs # {} =>
                   Len(scans) = first + 1 /\ last.currentIndex = first
            /\ occurs = {} => Len(scans) = Len(array)

\* C27 witness: the linear search has returned for an array that holds the
\* target twice, the first time after index 0.
C27_Witness ==
    /\ producer = "linear_search"
    /\ Occurrences(array, target) = {1, 2}
    /\ result[Len(result)].found

\* the binary-search frames that evaluate a midpoint, in the order produced
EvaluationFrames(frameList) ==
    LET IsEvaluation(f) == f.mid # -1 /\ ~f.completed
    IN  SelectSeq(frameList, IsEvaluation)

\* C28: for an ascending array of distinct numbers, every midpoint-evaluation
\* frame of the binary-search producer has 0 <= left <= mid <= right <= n-1
\* and mid = floor((left+right)/2); the window shrinks strictly from one
\* evaluation to the next; a target that occurs lies inside the window at
\* every evaluation; the last frame has found=true, with array[mid] = target,
\* exactly when the target occurs, and otherwise found=false and
\* left = right+1.
C28_BinaryWindow ==
    (producer = "binary_search" /\ Cardinality(Range(array)) = Len(array)) =>
        LET arr == sort(array)
            probes == EvaluationFrames(result)
            last == result[Len(result)]
        IN  /\ \A k \in 1..Len(probes) :
                   LET e == probes[k]
                   IN  /\ e.array = arr
                       /\ 0 <= e.left /\ e.left <= e.mid /\ e.mid <= e.right
                       /\ e.right <= Len(arr) - 1
                       /\ e.mid = (e.left + e.right) \div 2
                       /\ target \in Range(arr) =>
                              \E i \in e.left..e.right : At(arr, i) = target
            /\ \A k \in 1..(Len(probes) - 1) :
                   /\ probes[k].left <= probes[k + 1].left
                   /\ probes[k + 1].right <= probes[k].right
                   /\ probes[k + 1].right - probes[k + 1].left
                        < probes[k].right - probes[k].left
            /\ Len(probes) > 0
            /\ last.completed
            /\ last.found <=> target \in Range(arr)
            /\ last.found => last.mid # -1 /\ At(arr, last.mid) = target
            /\ ~last.found => last.left = last.right + 1

\* C28 witness: the binary search has returned for the default array, not
\* given in order, and a target it does not hold, after three evaluations.
C28_Witness ==
    /\ producer = "binary_search"
    /\ array = DefaultArray
    /\ target \notin Range(array)
    /\ Len(EvaluationFrames(result)) = 3
    /\ ~result[Len(result)].found

\* the kinds of frames of the quick-sort producer
IsPivotFrame(f) == f.description.text = "Pivot selected: % at position %"
IsPlacementFrame(f) == f.description.text = "Pivot % placed at correct position %"
IsSwapFrame(f) == f.description.text = "Swapped % and %"
IsComparisonFrame(f) == f.comparisons # <<>>

\* C29: the frames of every partition call of the quick-sort producer are one
\* pivot-selection frame highlighting index high, one comparison frame per
\* j = low..high-1 in increasing order, each followed by a swap frame exactly
\* when arr[j] < pivot, and one pivot-placement frame, in which the pivot sits
\* at the returned index p, the elements of [low, p-1] are < pivot and those
\* of [p+1, high] are >= pivot.  Every frame between the initial and the final
\* frame belongs to such a call.
C29_PartitionFrames ==
    producer = "quick" =>
        /\ \A a \in 2..(Len(result) - 1) :
               \/ IsPivotFrame(result[a]) \/ IsPlacementFrame(result[a])
               \/ IsSwapFrame(result[a]) \/ IsComparisonFrame(result[a])
        /\ Len(result) > 2 => IsPivotFrame(result[2])
        /\ \A a \in 1..Len(result) :
               IsPlacementFrame(result[a]) =>
                   IsPivotFrame(result[a + 1]) \/ a + 1 = Len(result)
        /\ \A a \in 1..Len(result) :
               IsPivotFrame(result[a]) =>
                   LET pivot == result[a].description.args[1]
                       high == result[a].description.args[2]
                       b == CHOOSE k \in (a + 1)..Len(result) :
                               /\ IsPlacementFrame(result[k])
                               /\ \A h \in (a + 1)..(k - 1) :
                                      ~IsPlacementFrame(result[h])
                       p == result[b].description.args[2]
                       low == result[a + 1].comparisons[1]
                       J(k) == result[k].comparisons[1]
                   IN  /\ result[a].highlights = <<high>>
                       /\ result[a].comparisons = <<>>
                       /\ At(result[a].array, high) = pivot
                       /\ \E k \in (a + 1)..Len(result) : IsPlacementFrame(result[k])
                       /\ IsComparisonFrame(result[a + 1])
                       /\ \A k \in (a + 1)..(b - 1) :
                              IF IsComparisonFrame(result[k])
                              THEN LET next == IF IsSwapFrame(result[k + 1])
                                               THEN k + 2 ELSE k + 1
                                   IN  /\ Len(result[k].comparisons) = 1
                                       /\ IsSwapFrame(result[k + 1])
                                            <=> At(result[k].array, J(k)) < pivot
                                       /\ IF next = b THEN J(k) = high - 1
                                          ELSE /\ IsComparisonFrame(result[next])
                                               /\ J(next) = J(k) + 1
                              ELSE /\ IsSwapFrame(result[k])
                                   /\ IsComparisonFrame(result[k - 1])
                       /\ low <= p /\ p <= high
                       /\ result[b].highlights = <<p>>
                       /\ At(result[b].array, p) = pivot
                       /\ \A x \in low..(p - 1) : At(result[b].array, x) < pivot
                       /\ \A x \in (p + 1)..high : At(result[b].array, x) >= pivot

\* C29 witness: quick sort has returned for a longest array with a duplicate,
\* with a comparison that was followed by a swap and one that was not.
C29_Witness ==
    /\ producer = "quick"
    /\ Len(array) = MaxLen
    /\ Cardinality(Range(array)) < Len(array)
    /\ \E k \in 1..Len(result) : IsSwapFrame(result[k])
    /\ \E k \in 1..(Len(result) - 1) :
          IsComparisonFrame(result[k]) /\ ~IsSwapFrame(result[k + 1])

\* the kinds of frames of the merge-sort producer
IsDivideFrame(f) == f.description.text = "Dividing array from % to %"
IsPlacedFrame(f) == f.description.text = "Placed % at position %"
IsCopyFrame(f) == f.description.text = "Copying remaining element %"
IsWriteFrame(f) == IsPlacedFrame(f) \/ IsCopyFrame(f)

\* the ranges <<left, right>> of the divide frames
DivideRanges(frameList) ==
    {frameList[x].description.args :
        x \in {y \in 1..Len(frameList) : IsDivideFrame(frameList[y])}}

\* The merges of a frame list, each as <<first, last>>: the positions in the
\* list of its first and last placement or copy frame.  A merge goes on from
\* one such frame to the next while the position written grows by one and no
\* divide frame stands between them.
Merges(frameList) ==
    LET W == {x \in 1..Len(frameList) : IsWriteFrame(frameList[x])}
        K(x) == frameList[x].highlights[1]
        Continues(y, x) ==
            /\ y < x
            /\ K(x) = K(y) + 1
            /\ \A z \in (y + 1)..(x - 1) :
                   z \notin W /\ ~IsDivideFrame(frameList[z])
        IsFirst(x) == ~\E y \in W : Continues(y, x)
        IsLast(x) == ~\E y \in W : Continues(x, y)
    IN  {<<x, CHOOSE e \in W : /\ e >= x /\ IsLast(e)
                               /\ \A h \in W : (h >= x /\ IsLast(h)) => e <= h>> :
            x \in {y \in W : IsFirst(y)}}

\* C30: for input of length n the merge-sort producer emits n-1 divide
\* frames, one per range with left < right; every comparison frame is
\* immediately followed by a placement frame; each merge writes the positions
\* left..right of one divided range in increasing order, once each, its copy
\* frames after its comparisons, and leaves the range ascending in its last
\* frame.
C30_MergeFrames ==
    producer = "merge" =>
        LET n == Len(array)
            K(x) == result[x].highlights[1]
            Span(m) == <<K(m[1]), K(m[2])>>
        IN  /\ Cardinality({x \in 1..Len(result) : IsDivideFrame(result[x])}) = n - 1
            /\ Cardinality(DivideRanges(result)) = n - 1
            /\ \A r \in DivideRanges(result) : r[1] < r[2]
            /\ \A x \in 1..Len(result) :
                   /\ IsComparisonFrame(result[x]) =>
                          /\ IsPlacedFrame(result[x + 1])
                          /\ result[x + 1].highlights = result[x].highlights
                   /\ IsPlacedFrame(result[x]) => IsComparisonFrame(result[x - 1])
            /\ Cardinality(Merges(result)) = n - 1
            /\ {Span(m) : m \in Merges(result)} = DivideRanges(result)
            /\ \A m \in Merges(result) :
                   /\ \A x, y \in m[1]..m[2] :
                          (x < y /\ IsCopyFrame(result[x])) => IsCopyFrame(result[y])
                   /\ \A i, j \in K(m[1])..K(m[2]) :
                          i < j => At(result[m[2]].array, i) <= At(result[m[2]].array, j)

\* C30 witness: merge sort has returned for the default array: six merges,
\* one of them ending with more than one copy frame.
C30_Witness ==
    /\ producer = "merge"
    /\ array = DefaultArray
    /\ Cardinality(Merges(result)) = Len(array) - 1
    /\ \E x \in 1..(Len(result) - 1) :
          IsCopyFrame(result[x]) /\ IsCopyFrame(result[x + 1])

RECURSIVE PreorderFrom(_, _, _)
\* the depth-first preorder of gr worked off a stack of vertices still to be
\* entered: the top vertex is entered unless it was entered before, and its
\* neighbours, in listed order, go on top of the stack
PreorderFrom(gr, stack, order) ==
    IF stack = <<>> THEN order
    ELSE IF Head(stack) \in Range(order)
         THEN PreorderFrom(gr, Tail(stack), order)
         ELSE PreorderFrom(gr, At(gr, Head(stack)) \o Tail(stack),
                           Append(order, Head(stack)))

\* C31: the depth-first producer emits a start frame, one visiting frame per
\* visited vertex, whose current vertex is the last element of that frame's
\* traversalOrder, and a final frame; the final traversalOrder is the recursive
\* preorder taking neighbours in listed order and contains exactly the vertices
\* reachable from start, each once; for the default graph from vertex 0 it is
\* [0,1,3,4,5,2].
C31_DepthFirstPreorder ==
    producer = "dfs" =>
        LET last == result[Len(result)]
            order == last.traversalOrder
        IN  /\ Len(result) = Len(order) + 2
            /\ result[1].step.text = "Starting DFS from vertex %"
            /\ result[1].current = start
            /\ result[1].traversalOrder = <<>>
            /\ ~result[1].completed
            /\ \A k \in 1..Len(order) :
                   /\ result[k + 1].step.text = "Visiting vertex %"
                   /\ result[k + 1].traversalOrder = SubSeq(order, 1, k)
                   /\ result[k + 1].current = order[k]
                   /\ ~result[k + 1].completed
            /\ last.step.text = "DFS completed. Traversal order: %"
            /\ last.completed
            /\ order = PreorderFrom(graph, <<start>>, <<>>)
            /\ Range(order) = Within(graph, start, Len(graph))
            /\ Len(order) = Cardinality(Range(order))
            /\ (graph = DefaultGraph /\ start = 0) => order = <<0, 1, 3, 4, 5, 2>>

\* C31 witness: the depth-first producer has returned for the default graph,
\* where the preorder leaves vertex 2 to the end although it is adjacent to the
\* start.
C31_Witness ==
    /\ producer = "dfs"
    /\ graph = DefaultGraph
    /\ start = 0
    /\ Len(result) = 8
    /\ result[Len(result)].traversalOrder[6] = 2
    /\ 2 \in Range(At(graph, start))

\* C32: in every Merge Sort comparison frame the two indices listed in
\* comparisons hold, in that frame's own array, the two values named in the
\* frame's description.
C32_ComparisonShowsValues ==
    producer = "merge" =>
        \A k \in 1..Len(result) :
            IsComparisonFrame(result[k]) =>
                /\ At(result[k].array, result[k].comparisons[1])
                     = result[k].description.args[1]
                /\ At(result[k].array, result[k].comparisons[2])
                     = result[k].description.args[2]

\* C33: isPlaying and isPaused are never both true, whatever the sequence of
\* play, pause, stop, step, seek, load and callback firings, a completion
\* detected by a callback that fires after a pause included.
C33_NeverPlayingAndPaused == ~(isPlaying /\ isPaused)

\* C33 witness: playback was paused on the last frame while no animation-frame
\* request had ever been made, so the timeout of the last play() was still
\* pending; that timeout has since fired and found the sequence complete.
C33_Witness ==
    /\ op = "pausePlaying"
    /\ isPaused
    /\ ~isPlaying
    /\ animationId = 0
    /\ totalFrames > 0
    /\ currentFrame = totalFrames - 1
    /\ Pending = 0

\* C34: once the user has started playback, status leaves playing only through
\* a user-issued pause, stop or reset or through the timeout callback that
\* finds the last frame reached; the completion step of the run pipeline never
\* stops or resets an animation the user started.
C34_OnlyUserOrEndStopsPlayback ==
    [][(isPlaying /\ ~isPlaying') =>
          \/ PauseBtn
          \/ KeySpace
          \/ ResetVisualizationBtn
          \/ /\ currentFrame >= totalFrames - 1
             /\ \E d \in {1000 \div s : s \in Speeds} : TimeoutFires(d)]_vars

\* C35: at most one run pipeline is in flight at a time: a run click while
\* isRunning is true starts no second pipeline.
C35_OnePipelineInFlight == Len(pipeline) <= 1

\* the vertices a graph frame marks visited
Marked(f) == {v \in 0..(Len(f.visited) - 1) : At(f.visited, v)}

\* C36: in every frame of the breadth-first producer the vertices marked
\* visited are the disjoint union of the vertices in traversalOrder and the
\* vertices in queue, no vertex occurs twice in queue or in traversalOrder, and
\* the final frame has an empty queue.
C36_VisitedIsOrderPlusQueue ==
    producer = "bfs" =>
        /\ \A k \in 1..Len(result) :
               LET f == result[k]
               IN  /\ Marked(f) = Range(f.traversalOrder) \cup Range(f.queue)
                   /\ Range(f.traversalOrder) \cap Range(f.queue) = {}
                   /\ Len(f.queue) = Cardinality(Range(f.queue))
                   /\ Len(f.traversalOrder) = Cardinality(Range(f.traversalOrder))
        /\ result[Len(result)].queue = <<>>

\* C36 witness: the breadth-first producer has returned frames among which one
\* has two vertices waiting in the queue and two already in traversalOrder.
C36_Witness ==
    /\ producer = "bfs"
    /\ \E k \in 1..Len(result) :
           /\ Len(result[k].queue) = 2
           /\ Len(result[k].traversalOrder) = 2
           /\ Cardinality(Marked(result[k])) = 4

\* the number of positions of q that hold v
Count(q, v) == Cardinality({k \in 1..Len(q) : q[k] = v})

\* a and b hold the same values, each as many times
IsPermutation(a, b) ==
    /\ Len(a) = Len(b)
    /\ \A v \in Range(a) \cup Range(b) : Count(a, v) = Count(b, v)

\* C37: in every frame of the bubble, selection and quick sort producers the
\* array is a permutation of the input, and the final frame of every sorting
\* producer, insertion and merge sort included, is a permutation of the input.
C37_FramesArePermutations ==
    /\ producer \in {"bubble", "selection", "quick"} =>
           \A k \in 1..Len(result) : IsPermutation(result[k].array, array)
    /\ producer \in SortingIds =>
           IsPermutation(result[Len(result)].array, array)

\* C37 witness: a sorting producer has returned for an input with a repeated
\* value that is not in order, and some frame shows an arrangement other than
\* the input's.
C37_Witness ==
    /\ producer \in {"bubble", "selection", "quick"}
    /\ Len(array) > Cardinality(Range(array))
    /\ ~IsAscending(array)
    /\ \E k \in 1..Len(result) : result[k].array # array

\* C38: for the same graph and start vertex, the traversal order printed to
\* the output area by simulateGraphOutput equals the traversalOrder of the
\* final frame of the corresponding frame producer, for both BFS and DFS.
C38_OutputMatchesFrames ==
    producer \in {"bfs", "dfs"} =>
        traversalOutput = result[Len(result)].traversalOrder

\* C39: in script.js, after the user has stopped a run with the run button,
\* the timers of the stopped run append no further output line and change
\* neither isRunning nor the run button, also when a new run has been started
\* in the meantime.
C39_StoppedRunIsSilent ==
    [][(/\ Due # {}
        /\ timers[NextTimer].run \in stoppedRuns
        /\ TimerFires)
          => UNCHANGED <<outputArea, isRunning, runBtnText>>]_vars

\* C40: in script.js, for a text that holds "Bubble Sort" and a run the user
\* does not stop, the interval appends the 11 step lines in list order, each
\* once, before it is cleared, and it appends no step line while isRunning is
\* false.
C40_AllStepLinesAppended ==
    [][(Fires("step") /\ StepInterval) =>
          LET t == timers[NextTimer]
          IN  /\ Len(steps) = 11
              /\ outputArea' # outputArea =>
                     /\ isRunning
                     /\ outputArea'
                          = Append(outputArea, Line(t.run, steps[t.stepIndex + 1]))
                     /\ timers'[NextTimer].stepIndex = t.stepIndex + 1
              /\ (Len(timers') < Len(timers) /\ t.run \notin stoppedRuns) =>
                     t.stepIndex = Len(steps)]_vars

====
